---- MODULE Spec2Model ----
(***************************************************************************)
(* A model of eidex (src/eidex): the branch-aware work log kept in a       *)
(* SQLite store.  The state is the logs table, the sqlite_sequence         *)
(* counter, the wall clock, the Git repository view, the merged            *)
(* configuration, and the outcome of the last call.                        *)
(***************************************************************************)
EXTENDS Integers, Sequences, FiniteSets, TLC

\* ------------------------------------------------------------------------
\* Bounds of the model
\* ------------------------------------------------------------------------
\* The number of rows ever inserted.
MaxAppends == 2
\* The last tick of the wall clock.
MaxTick == 3

\* ------------------------------------------------------------------------
\* Structured payloads (the Python values passed as extra_info)
\* ------------------------------------------------------------------------
\* Text is a sequence of code points.
S_type == <<116, 121, 112, 101>>
S_feature == <<102, 101, 97, 116, 117, 114, 101>>
S_n == <<110>>
S_unicode == <<233, 34>>

JNull == [tag |-> "null", b |-> FALSE, n |-> 0, s |-> <<>>, keys |-> <<>>, kids |-> <<>>]
JBool(x) == [tag |-> "bool", b |-> x, n |-> 0, s |-> <<>>, keys |-> <<>>, kids |-> <<>>]
JNum(x) == [tag |-> "num", b |-> FALSE, n |-> x, s |-> <<>>, keys |-> <<>>, kids |-> <<>>]
JStr(x) == [tag |-> "str", b |-> FALSE, n |-> 0, s |-> x, keys |-> <<>>, kids |-> <<>>]
JArr(xs) == [tag |-> "arr", b |-> FALSE, n |-> 0, s |-> <<>>, keys |-> <<>>, kids |-> xs]
JObj(ks, xs) == [tag |-> "obj", b |-> FALSE, n |-> 0, s |-> <<>>, keys |-> ks, kids |-> xs]

\* Python None: the default of the extra_info parameter.
None == JNull

FeaturePayload == JObj(<<S_type, S_n>>, <<JStr(S_feature), JNum(3)>>)
NestedPayload == JObj(<<S_unicode>>, <<JArr(<<JBool(TRUE), JNull, JObj(<<>>, <<>>)>>)>>)

\* bool(x) of a Python value, as used by "if extra_info".
Truthy(v) ==
  CASE v.tag = "null" -> FALSE
    [] v.tag = "bool" -> v.b
    [] v.tag = "num" -> v.n # 0
    [] v.tag = "str" -> Len(v.s) > 0
    [] v.tag = "arr" -> Len(v.kids) > 0
    [] v.tag = "obj" -> Len(v.kids) > 0

\* JSON text is a sequence of tokens; a string token carries its escaped body.
Tok(k, n, s) == [k |-> k, n |-> n, s |-> s]
Punct(c) == Tok("punct", c, <<>>)
LBrace == Punct(123)
RBrace == Punct(125)
LBracket == Punct(91)
RBracket == Punct(93)
Comma == Punct(44)
Colon == Punct(58)

\* json.dumps escapes '"' and '\' with a backslash and, with ensure_ascii,
\* every non-ASCII code point as \uXXXX (here: 92, 117, code point).
RECURSIVE EscapeStr(_)
EscapeStr(s) ==
  IF s = <<>> THEN <<>>
  ELSE LET c == Head(s)
           e == IF c = 34 \/ c = 92 THEN <<92, c>>
                ELSE IF c > 127 THEN <<92, 117, c>>
                ELSE <<c>>
       IN e \o EscapeStr(Tail(s))

RECURSIVE UnescapeStr(_)
UnescapeStr(s) ==
  IF s = <<>> THEN <<>>
  ELSE IF Head(s) = 92 /\ Len(s) >= 3 /\ s[2] = 117
       THEN <<s[3]>> \o UnescapeStr(SubSeq(s, 4, Len(s)))
  ELSE IF Head(s) = 92 /\ Len(s) >= 2
       THEN <<s[2]>> \o UnescapeStr(SubSeq(s, 3, Len(s)))
  ELSE <<Head(s)>> \o UnescapeStr(Tail(s))

RECURSIVE Dumps(_)
RECURSIVE DumpItems(_, _, _)
\* The members of an array (ks = <<>>) or of an object, comma separated.
DumpItems(ks, xs, i) ==
  IF i > Len(xs) THEN <<>>
  ELSE (IF i > 1 THEN <<Comma>> ELSE <<>>)
       \o (IF ks # <<>> THEN <<Tok("str", 0, EscapeStr(ks[i])), Colon>> ELSE <<>>)
       \o Dumps(xs[i])
       \o DumpItems(ks, xs, i + 1)

\* json.dumps(value)
Dumps(v) ==
  CASE v.tag = "null" -> <<Tok("null", 0, <<>>)>>
    [] v.tag = "bool" -> <<Tok(IF v.b THEN "true" ELSE "false", 0, <<>>)>>
    [] v.tag = "num" -> <<Tok("num", v.n, <<>>)>>
    [] v.tag = "str" -> <<Tok("str", 0, EscapeStr(v.s))>>
    [] v.tag = "arr" -> <<LBracket>> \o DumpItems(<<>>, v.kids, 1) \o <<RBracket>>
    [] v.tag = "obj" -> <<LBrace>> \o DumpItems(v.keys, v.kids, 1) \o <<RBrace>>

\* The result of a parser: whether it succeeded, the value read and the
\* position after it.
Fail == [ok |-> FALSE, v |-> JNull, i |-> 0]
Read(v, i) == [ok |-> TRUE, v |-> v, i |-> i]

RECURSIVE ParseValue(_, _)
RECURSIVE ParseArrayRest(_, _, _)
RECURSIVE ParseObjectRest(_, _, _, _)

\* After an element of an array: "]" ends it, "," announces one more element.
ParseArrayRest(t, i, acc) ==
  IF i > Len(t) THEN Fail
  ELSE IF t[i] = RBracket THEN Read(JArr(acc), i + 1)
  ELSE IF t[i] # Comma THEN Fail
  ELSE LET r == ParseValue(t, i + 1)
       IN IF r.ok THEN ParseArrayRest(t, r.i, Append(acc, r.v)) ELSE Fail

ParseArray(t, i) ==
  IF i > Len(t) THEN Fail
  ELSE IF t[i] = RBracket THEN Read(JArr(<<>>), i + 1)
  ELSE LET r == ParseValue(t, i)
       IN IF r.ok THEN ParseArrayRest(t, r.i, <<r.v>>) ELSE Fail

\* A member of an object at position i: a string, a colon and a value.
ParseMember(t, i) ==
  IF i + 2 > Len(t) \/ t[i].k # "str" \/ t[i + 1] # Colon THEN Fail
  ELSE ParseValue(t, i + 2)

ParseObjectRest(t, i, ks, acc) ==
  IF i > Len(t) THEN Fail
  ELSE IF t[i] = RBrace THEN Read(JObj(ks, acc), i + 1)
  ELSE IF t[i] # Comma THEN Fail
  ELSE LET r == ParseMember(t, i + 1)
       IN IF r.ok
          THEN ParseObjectRest(t, r.i, Append(ks, UnescapeStr(t[i + 1].s)), Append(acc, r.v))
          ELSE Fail

ParseObject(t, i) ==
  IF i > Len(t) THEN Fail
  ELSE IF t[i] = RBrace THEN Read(JObj(<<>>, <<>>), i + 1)
  ELSE LET r == ParseMember(t, i)
       IN IF r.ok
          THEN ParseObjectRest(t, r.i, <<UnescapeStr(t[i].s)>>, <<r.v>>)
          ELSE Fail

ParseValue(t, i) ==
  IF i > Len(t) THEN Fail
  ELSE CASE t[i].k = "null" -> Read(JNull, i + 1)
         [] t[i].k = "true" -> Read(JBool(TRUE), i + 1)
         [] t[i].k = "false" -> Read(JBool(FALSE), i + 1)
         [] t[i].k = "num" -> Read(JNum(t[i].n), i + 1)
         [] t[i].k = "str" -> Read(JStr(UnescapeStr(t[i].s)), i + 1)
         [] t[i] = LBracket -> ParseArray(t, i + 1)
         [] t[i] = LBrace -> ParseObject(t, i + 1)
         [] OTHER -> Fail

\* json.loads(text) succeeds when one value spans the whole text; it raises
\* json.JSONDecodeError otherwise.
Parses(t) == LET r == ParseValue(t, 1) IN r.ok /\ r.i = Len(t) + 1
Loads(t) == ParseValue(t, 1).v

\* A nullable TEXT column value (SQL NULL is Python None).
NULL == [null |-> TRUE, text |-> <<>>]
Text(t) == [null |-> FALSE, text |-> t]

\* json.dumps(extra_info) if extra_info else None
ExtraJson(extra_info) == IF Truthy(extra_info) THEN Text(Dumps(extra_info)) ELSE NULL

\* json.loads(row[3]) if row[3] else None
ExtraOut(col) == IF ~col.null /\ col.text # <<>> THEN Loads(col.text) ELSE None

Payloads ==
  {None, JBool(FALSE), JBool(TRUE), JNum(0), JNum(3), JStr(<<>>), JStr(S_unicode),
   JArr(<<>>), JObj(<<>>, <<>>), FeaturePayload, NestedPayload}

\* ------------------------------------------------------------------------
\* Configuration (src/eidex/config.py)
\* ------------------------------------------------------------------------
\* A TOML value: an integer, a boolean or a string.
CInt(x) == [t |-> "int", i |-> x, b |-> FALSE, s |-> ""]
CBool(x) == [t |-> "bool", i |-> 0, b |-> x, s |-> ""]
CStr(x) == [t |-> "str", i |-> 0, b |-> FALSE, s |-> x]
\* A TOML array of strings.  The text of an ignore entry or of the ignore
\* file is a sequence of fragments; no fragment used here occurs inside
\* another or across the junction of two, so one text is a substring of
\* another exactly when its fragments are a subsequence of consecutive
\* fragments of the other.
CList(xs) == [t |-> "list", i |-> 0, b |-> FALSE, s |-> "", l |-> xs]

\* The ignore entries of the default and of the scaffolded configuration.
S_eidex_dir == <<".eidex/">>
S_eidex_cache == <<".eidex-cache/">>
S_eidex_toml == <<".eidex.toml">>

\* bool(x) of a configuration value
CfgTruthy(v) ==
  CASE v.t = "int" -> v.i # 0
    [] v.t = "bool" -> v.b
    [] v.t = "str" -> v.s # ""
    [] v.t = "list" -> v.l # <<>>

\* The integer a Python int or bool stands for in arithmetic and comparisons.
CfgInt(v) == IF v.t = "bool" THEN (IF v.b THEN 1 ELSE 0) ELSE v.i

DEFAULT_CONFIG ==
  [database |->
     [filename |-> CStr(".eidex-logs.db"),
      max_logs_per_branch |-> CInt(1000),
      auto_cleanup_old_logs |-> CBool(TRUE),
      cleanup_days_threshold |-> CInt(90)],
   logging |->
     [default_limit |-> CInt(50),
      timestamp_format |-> CStr("iso"),
      include_branch_in_output |-> CBool(TRUE)],
   git |->
     [auto_add_to_gitignore |-> CBool(TRUE),
      gitignore_entries |-> CList(<<S_eidex_dir, S_eidex_cache>>)]]

\* The merge that takes the section of the file in place of the defaults.
MergeSection_Replace(defaults, file) == file

\* merged_config[section] = DEFAULT_CONFIG[section].copy() updated with the
\* section of the file.
MergeSection(defaults, file) ==
  [k \in (DOMAIN defaults) \cup (DOMAIN file) |->
     IF k \in DOMAIN file THEN file[k] ELSE defaults[k]]

\* The file create_default_config() writes, as tomllib parses it.
ScaffoldToml ==
  [database |->
     [filename |-> CStr(".eidex-logs.db"),
      max_logs_per_branch |-> CInt(1000),
      auto_cleanup_old_logs |-> CBool(TRUE),
      cleanup_days_threshold |-> CInt(90)],
   logging |->
     [default_limit |-> CInt(50),
      timestamp_format |-> CStr("iso"),
      include_branch_in_output |-> CBool(TRUE)],
   git |->
     [auto_add_to_gitignore |-> CBool(TRUE),
      gitignore_entries |-> CList(<<S_eidex_toml, S_eidex_dir>>)]]

\* eidex.toml as a call finds it: absent, present but rejected by the TOML
\* parser, or parsed to the tables of its sections.
TomlStates == {"absent", "unparseable", "parseable"}
TomlFile(status, content) == [status |-> status, content |-> content]

\* The merge of the parsed file over the defaults, section by section.
MergeConfig(file_config) ==
  [section \in DOMAIN DEFAULT_CONFIG |->
     IF section \in DOMAIN file_config
     THEN MergeSection(DEFAULT_CONFIG[section], file_config[section])
     ELSE DEFAULT_CONFIG[section]]

\* load_config() that answers a file the parser rejects as it answers an
\* absent one: with the scaffolded file.
load_config_ScaffoldOnError(file) ==
  MergeConfig(IF file.status = "parseable" THEN file.content ELSE ScaffoldToml)

\* load_config(): an absent file is scaffolded first and then read; a file
\* the parser rejects (or whose sections cannot be merged) gives the
\* defaults.
load_config(file) ==
  IF file.status = "unparseable" THEN DEFAULT_CONFIG
  ELSE MergeConfig(IF file.status = "absent" THEN ScaffoldToml ELSE file.content)

\* The lookup that reads the parsed file alone, without the built-in
\* defaults under it.
get_config_value_FileOnly(file, section, key, default) ==
  IF file.status = "parseable" /\ section \in DOMAIN file.content
     /\ key \in DOMAIN file.content[section]
  THEN file.content[section][key]
  ELSE default

\* get_config_value(section, key, default): config.get(section, {}).get(key,
\* default) on the loaded configuration.
get_config_value(file, section, key, default) ==
  LET config == load_config(file)
      values == IF section \in DOMAIN config THEN config[section] ELSE <<>>
  IN IF section \in DOMAIN config /\ key \in DOMAIN values
     THEN values[key]
     ELSE default

\* The eidex.toml files of the model: each overrides some keys.
ConfigFiles ==
  { [database |-> <<>>],
    [database |-> ("max_logs_per_branch" :> CInt(1)) @@ ("cleanup_days_threshold" :> CInt(1)),
     logging |-> ("default_limit" :> CInt(1))],
    [database |-> ("max_logs_per_branch" :> CInt(1)) @@ ("cleanup_days_threshold" :> CInt(0)),
     logging |-> ("default_limit" :> CInt(0))],
    [database |-> ("auto_cleanup_old_logs" :> CBool(FALSE)) @@ ("max_logs_per_branch" :> CInt(0)),
     logging |-> ("default_limit" :> CInt(0 - 1))],
    [database |-> ("auto_cleanup_old_logs" :> CBool(FALSE))
                    @@ ("max_logs_per_branch" :> CInt(0 - 1))],
    [database |-> ("max_logs_per_branch" :> CStr("2"))] }

\* ------------------------------------------------------------------------
\* Time
\* ------------------------------------------------------------------------
\* The times of day a timestamp can show (the HH:MM:SS part).
TimesOfDay == {0, 1}
TicksPerDay == Cardinality(TimesOfDay)
\* The offsets of the local time zone from UTC, in ticks.
TzOffsets == {0, 1}

\* SQLite's CURRENT_TIMESTAMP: the UTC time as 'YYYY-MM-DD HH:MM:SS'.  The
\* text is the date, a space (32) and the time of day.
CURRENT_TIMESTAMP(utc) == <<utc \div TicksPerDay, 32, utc % TicksPerDay>>

\* datetime.isoformat(): the date, a 'T' (84) and the time of day.
isoformat(t) == <<t \div TicksPerDay, 84, t % TicksPerDay>>

\* datetime.now(): the local time, tz ticks ahead of UTC.
datetime_now(utc, offset) == utc + offset

\* (datetime.now() - timedelta(days=days)).isoformat()
Cutoff(utc, offset, days) == isoformat(datetime_now(utc, offset) - days * TicksPerDay)

\* SQLite compares TEXT values with memcmp: the first differing position decides.
RECURSIVE TextLess(_, _)
TextLess(a, b) ==
  IF b = <<>> THEN FALSE
  ELSE IF a = <<>> THEN TRUE
  ELSE IF Head(a) # Head(b) THEN Head(a) < Head(b)
  ELSE TextLess(Tail(a), Tail(b))

\* ------------------------------------------------------------------------
\* The logs table (src/eidex/database.py)
\* ------------------------------------------------------------------------
Branches == {"main", "dev"}
Messages == {"fix bug", "add endpoint"}
NoBranch == "None"

\* An insert that finds a row of the same branch and message and refreshes
\* its timestamp and extra in place.
Insert_Upsert(rows, row) ==
  IF \E r \in rows : r.branch = row.branch /\ r.message = row.message
  THEN {IF r.branch = row.branch /\ r.message = row.message
        THEN [r EXCEPT !.timestamp = row.timestamp, !.extra = row.extra]
        ELSE r : r \in rows}
  ELSE rows \cup {row}

\* An insert that takes the place of the row the branch got within the same
\* second.
Insert_OnePerSecond(rows, row) ==
  {r \in rows : r.branch # row.branch \/ r.timestamp # row.timestamp} \cup {row}

\* INSERT INTO logs: the table gets one more row and keeps every row it had.
Insert(rows, row) == rows \cup {row}

\* A table whose id is INTEGER PRIMARY KEY without AUTOINCREMENT: the next id
\* follows the largest id that is stored.
Sequence_LargestStored(rows, last) ==
  IF rows = {} THEN 0 ELSE CHOOSE n \in {r.id : r \in rows} : \A r \in rows : r.id <= n

\* The sqlite_sequence row of the table logs, which AUTOINCREMENT keeps: the
\* largest id ever assigned, whatever rows are stored.
Sequence(rows, last) == last

\* INSERT INTO logs (branch, message, extra): the id is one more than the
\* largest id ever assigned (AUTOINCREMENT), the timestamp is the default.
NewRow(lastId, utc, branch, message, extra_json) ==
  [id |-> lastId + 1, timestamp |-> CURRENT_TIMESTAMP(utc), branch |-> branch,
   message |-> message, extra |-> extra_json]

\* The scan order with the ties of one timestamp in insertion order.
Before_TiesInInsertionOrder(r1, r2) ==
  \/ TextLess(r2.timestamp, r1.timestamp)
  \/ r1.timestamp = r2.timestamp /\ r1.id < r2.id

\* The order of the reverse scan of idx_branch_timestamp, which answers
\* "WHERE branch = ? ORDER BY timestamp DESC": timestamp descending and,
\* within one timestamp, rowid descending.
Before(r1, r2) ==
  \/ TextLess(r2.timestamp, r1.timestamp)
  \/ r1.timestamp = r2.timestamp /\ r1.id > r2.id

\* SELECT ... FROM logs WHERE branch = ? ORDER BY timestamp DESC LIMIT ?
\* as the sequence of the rows; a negative LIMIT is no limit in SQLite.
RECURSIVE Ordered(_, _)
Ordered(rows, limit) ==
  IF rows = {} \/ limit = 0 THEN <<>>
  ELSE LET first == CHOOSE r \in rows : \A q \in rows \ {r} : Before(r, q)
       IN <<first>> \o Ordered(rows \ {first}, limit - 1)

\* The SELECT without its WHERE branch = ? clause.
SelectBranch_AnyBranch(rows, branch, limit) == Ordered(rows, limit)

SelectBranch(rows, branch, limit) == Ordered({r \in rows : r.branch = branch}, limit)

Range(f) == {f[i] : i \in DOMAIN f}

\* The dict fetch_branch_logs builds from a row.
Entry(row) ==
  [timestamp |-> row.timestamp, branch |-> row.branch, message |-> row.message,
   extra |-> ExtraOut(row.extra)]

\* DELETE FROM logs WHERE timestamp < ?
OldRows(rows, cutoff) == {r \in rows : TextLess(r.timestamp, cutoff)}

\* The rows in ascending order: ORDER BY timestamp ASC LIMIT ?
RECURSIVE OldestFirst(_, _)
OldestFirst(rows, limit) ==
  IF rows = {} \/ limit = 0 THEN <<>>
  ELSE LET first == CHOOSE r \in rows : \A q \in rows \ {r} : Before(q, r)
       IN <<first>> \o OldestFirst(rows \ {first}, limit - 1)

\* The count cap that keeps the oldest rows of the branch.
OverCap_KeepsOldest(rows, branch, max_logs) ==
  LET keep == {r.id : r \in Range(OldestFirst({r \in rows : r.branch = branch}, max_logs))}
  IN {r \in rows : r.branch = branch /\ r.id \notin keep}

\* The cap without its two "branch = ?" conditions: the max_logs most recent
\* rows of the whole table are kept.
OverCap_AllBranches(rows, branch, max_logs) ==
  LET keep == {r.id : r \in Range(Ordered(rows, max_logs))}
  IN {r \in rows : r.id \notin keep}

\* DELETE FROM logs WHERE branch = ? AND id NOT IN
\*   (SELECT id FROM logs WHERE branch = ? ORDER BY timestamp DESC LIMIT ?)
OverCap(rows, branch, max_logs) ==
  LET keep == {r.id : r \in Range(SelectBranch(rows, branch, max_logs))}
  IN {r \in rows : r.branch = branch /\ r.id \notin keep}

\* ------------------------------------------------------------------------
\* The files of the working tree (ensure_db, src/eidex/database.py)
\* ------------------------------------------------------------------------
\* The line feed.
LF == "\n"

\* Lines found in the ignore file of a working tree: "*.pyc" and
\* "build/.eidex/".
S_pyc == <<"*.pyc">>
S_build_eidex == <<"build/">> \o S_eidex_dir

\* The file .gitignore: absent, or its text.
NoGitignore == [exists |-> FALSE, content |-> <<>>]
Gitignore(text) == [exists |-> TRUE, content |-> text]

\* Python's "entry in content" on two texts.
Contains(content, entry) ==
  \E i \in 0..(Len(content) - Len(entry)) : SubSeq(content, i + 1, i + Len(entry)) = entry

\* The writes of the loop over gitignore_entries on an existing file: the
\* content is read once, and "\n<entry>\n" is written for every entry that
\* is not a substring of it.
RECURSIVE MissingWrites(_, _)
MissingWrites(content, entries) ==
  IF entries = <<>> THEN <<>>
  ELSE (IF ~Contains(content, Head(entries)) THEN <<LF>> \o Head(entries) \o <<LF>> ELSE <<>>)
       \o MissingWrites(content, Tail(entries))

\* The writes of the loop over gitignore_entries on a new file: "<entry>\n".
RECURSIVE AllWrites(_)
AllWrites(entries) ==
  IF entries = <<>> THEN <<>>
  ELSE Head(entries) \o <<LF>> \o AllWrites(Tail(entries))

\* The part of ensure_db that registers the entries in .gitignore.
add_to_gitignore(file, entries) ==
  IF file.exists
  THEN Gitignore(file.content \o MissingWrites(file.content, entries))
  ELSE Gitignore(AllWrites(entries))

\* The characters of a fragment of text: file positions count characters.
Chars(fragment) ==
  CASE fragment = ".eidex/" -> <<".", "e", "i", "d", "e", "x", "/">>
    [] fragment = ".eidex-cache/" -> <<".", "e", "i", "d", "e", "x", "-", "c", "a", "c", "h", "e", "/">>
    [] fragment = ".eidex.toml" -> <<".", "e", "i", "d", "e", "x", ".", "t", "o", "m", "l">>
    [] fragment = "*.pyc" -> <<"*", ".", "p", "y", "c">>
    [] OTHER -> <<fragment>>

\* A text, character by character.
RECURSIVE Flatten(_)
Flatten(text) == IF text = <<>> THEN <<>> ELSE Chars(Head(text)) \o Flatten(Tail(text))

\* The byte a write past the end of a file leaves in the gap.
NUL == "\\0"

\* write(2) of data at a position of a file that was not opened for append:
\* the data replace what the file holds from there on, and extend it.
WriteAt(content, offset, data) ==
  LET gap == IF offset > Len(content) THEN offset - Len(content) ELSE 0
      padded == content \o [i \in 1..gap |-> NUL]
  IN SubSeq(padded, 1, offset) \o data \o SubSeq(padded, offset + Len(data) + 1, Len(padded))

\* The objects of the schema.
LogsTable == "logs"
BranchIndex == "idx_branch_timestamp"

\* CREATE TABLE / CREATE INDEX without IF NOT EXISTS: an object that exists
\* is an error.
CreateIfNotExists_Unconditional(objects, name) ==
  IF name \in objects
  THEN [err |-> "OperationalError", schema |-> objects]
  ELSE [err |-> "none", schema |-> objects \cup {name}]

\* CREATE TABLE IF NOT EXISTS / CREATE INDEX IF NOT EXISTS
CreateIfNotExists(objects, name) ==
  [err |-> "none", schema |-> objects \cup {name}]

\* The files of the working tree as one value.
Tree(t, c, d, x, s, g) ==
  [toml |-> t, cfgFile |-> c, eidexDir |-> d, context |-> x, schema |-> s, gitignore |-> g]

\* The outcome of a call on the files: the error it raises and the files it
\* leaves.
Outcome(err, tree) == [err |-> err, tree |-> tree]

\* ensure_eidex_directory(): os.makedirs unless the directory exists.
ensure_eidex_directory(tree) == [tree EXCEPT !.eidexDir = TRUE]

\* A scaffold that is written only where there is no eidex.toml.
create_default_config_KeepExisting(tree) ==
  IF tree.cfgFile = "absent" THEN [tree EXCEPT !.cfgFile = "parseable", !.toml = ScaffoldToml]
  ELSE tree

\* create_default_config(): eidex.toml is written, whatever it held.
create_default_config(tree) ==
  [tree EXCEPT !.cfgFile = "parseable", !.toml = ScaffoldToml]

\* create_ai_context_file(): the directory is ensured and the file written.
create_ai_context_file(tree) ==
  [ensure_eidex_directory(tree) EXCEPT !.context = TRUE]

\* The files load_config() leaves: an absent eidex.toml is scaffolded, an
\* absent AI_CONTEXT.md is created.
ConfigLoaded(tree) ==
  LET t1 == IF tree.cfgFile = "absent" THEN create_default_config(tree) ELSE tree
  IN IF ~t1.context THEN create_ai_context_file(t1) ELSE t1

\* The configuration value a call reads from the files.
TreeValue(tree, section, key, default) ==
  get_config_value(TomlFile(tree.cfgFile, tree.toml), section, key, default)

\* The root of the working tree.
RepoRoot == "repo"

\* get_config_path(): os.path.join(repo_root, "eidex.toml")
get_config_path == <<RepoRoot, "eidex.toml">>

\* get_db_path(): "<repo_root>/.eidex/<db_filename>" as its components.
DbPath(tree) ==
  <<RepoRoot, ".eidex", TreeValue(tree, "database", "filename", CStr(".eidex-logs.db")).s>>

\* ensure_db() that creates the directory and the files of load_config(),
\* and leaves the schema and the ignore file to a later step.
ensure_db_WithoutSchema(tree, repoFailure, storeFails) ==
  IF repoFailure # "none" THEN Outcome(repoFailure, tree)
  ELSE Outcome("none", ConfigLoaded(ensure_eidex_directory(tree)))

\* ensure_db(): repoFailure is what get_repo_root() raises, storeFails
\* whether SQLite fails to open or write the store file.
ensure_db(tree, repoFailure, storeFails) ==
  IF repoFailure # "none" THEN Outcome(repoFailure, tree)
  ELSE
    LET t1 == ConfigLoaded(ensure_eidex_directory(tree))
        table == CreateIfNotExists(t1.schema, LogsTable)
        index == CreateIfNotExists(table.schema, BranchIndex)
        t2 == [t1 EXCEPT !.schema = index.schema]
        auto == TreeValue(t2, "git", "auto_add_to_gitignore", CBool(TRUE))
        entries == TreeValue(t2, "git", "gitignore_entries", CList(<<S_eidex_dir>>))
    IN IF storeFails THEN Outcome("OperationalError", t1)
       ELSE IF table.err # "none" THEN Outcome(table.err, t1)
       ELSE IF index.err # "none" THEN Outcome(index.err, [t1 EXCEPT !.schema = table.schema])
       ELSE IF CfgTruthy(auto)
            THEN Outcome("none", [t2 EXCEPT !.gitignore = add_to_gitignore(t2.gitignore, entries.l)])
            ELSE Outcome("none", t2)

\* ------------------------------------------------------------------------
\* State
\* ------------------------------------------------------------------------
VARIABLES
  logs,      \* the rows of the logs table
  seq,       \* sqlite_sequence: the largest id ever assigned
  now,       \* the UTC wall clock, in ticks
  tz,        \* the offset of the local time zone, in ticks
  inRepo,    \* whether the working directory is inside a Git working tree
  repoExc,   \* the exception git.Repo raises outside a working tree
  active,    \* repo.active_branch.name
  branches,  \* the names of repo.branches
  toml,      \* the parsed content of eidex.toml
  cfgFile,   \* whether eidex.toml is absent, unparseable or parseable
  eidexDir,  \* whether the directory .eidex exists
  context,   \* whether .eidex/AI_CONTEXT.md exists
  schema,    \* the names of the tables and indexes of the store
  gitignore, \* the file .gitignore: whether it exists and its content
  procs,     \* the calls in progress side by side, each at its own step
  call,      \* the last call and its arguments
  ret,       \* what the last call returned or raised
  defaults   \* the module-level dict DEFAULT_CONFIG of the running process

vars ==
  <<logs, seq, now, tz, inRepo, repoExc, active, branches, toml, cfgFile, eidexDir,
    context, schema, gitignore, procs, call, ret, defaults>>
env == <<now, tz, inRepo, repoExc, active, branches, procs, defaults>>
\* The files of the working tree the calls create and write.
files == <<toml, cfgFile, eidexDir, context, schema, gitignore>>

\* eidex.toml as the call in progress finds it.
ConfigFile == TomlFile(cfgFile, toml)

RepoExceptions == {"InvalidGitRepositoryError", "GitCommandError"}

\* No ensure_db call is in progress side by side with another.
NoProcs == <<>>

NoArg == [given |-> FALSE, text |-> <<>>]
Arg(t) == [given |-> TRUE, text |-> t]

NoCall ==
  [op |-> "idle", message |-> "", extra |-> None, arg |-> NoArg, branch |-> NoBranch,
   hasLimit |-> FALSE, limit |-> 0, days |-> 0]

NoRet ==
  [err |-> "none", rows |-> <<>>, count |-> 0, inserted |-> 0, fault |-> "none",
   exit |-> 0, stderr |-> "", out |-> <<>>, before |-> <<>>, open |-> 0]

\* get_repo_root() and get_current_branch(): only GitCommandError is turned
\* into ValueError; any other exception of git.Repo propagates as it is.
RepoFailure ==
  IF inRepo THEN "none"
  ELSE IF repoExc = "GitCommandError" THEN "ValueError"
  ELSE repoExc

\* The files of the working tree in the current state.
CurrentTree == Tree(toml, cfgFile, eidexDir, context, schema, gitignore)

\* The call leaves the files as tree.
SetFiles(tree) ==
  /\ toml' = tree.toml
  /\ cfgFile' = tree.cfgFile
  /\ eidexDir' = tree.eidexDir
  /\ context' = tree.context
  /\ schema' = tree.schema
  /\ gitignore' = tree.gitignore

\* The ensure_db() call every operation starts with.
Ensured == ensure_db(CurrentTree, RepoFailure, FALSE)

\* What stops an operation before it reaches the logs table: the failure of
\* its ensure_db call, or SQLite's "no such table: logs".
StoreFailure(ensured) ==
  IF ensured.err # "none" THEN ensured.err
  ELSE IF LogsTable \notin ensured.tree.schema THEN "OperationalError"
  ELSE "none"

\* ------------------------------------------------------------------------
\* Operations
\* ------------------------------------------------------------------------
\* prune_old_logs(days): the rows it deletes.
Pruned(rows, days) == OldRows(rows, Cutoff(now, tz, days))

\* The cap applied for a max_logs_per_branch of 0 as well.
CapEnabled_ZeroIncluded(max_logs) == CfgInt(max_logs) >= 0

\* "if max_logs > 0"
CapEnabled(max_logs) == CfgInt(max_logs) > 0

\* Both maintenance steps in one try block: a failure of the pruning skips
\* the cap.
CapRuns_UnlessAnyFault(max_logs, fault) == CapEnabled(max_logs) /\ fault = "none"

\* The cap has a try block of its own, after the one of the pruning: it
\* takes effect unless its own statement fails.
CapRuns(max_logs, fault) == CapEnabled(max_logs) /\ fault # "cap"

\* log_work(message, extra_info): the table, the sequence and the outcome
\* it leaves.  ensured is the outcome of its ensure_db() call, fault names
\* the maintenance step in which the store fails.
log_work(ensured, message, extra_info, fault) ==
  LET failure == StoreFailure(ensured) IN
  IF failure # "none"
  THEN [logs |-> logs, seq |-> seq, err |-> failure, inserted |-> 0, tree |-> ensured.tree]
  ELSE
    LET row == NewRow(Sequence(logs, seq), now, active, message, ExtraJson(extra_info))
        inserted == Insert(logs, row)
        auto == get_config_value(ConfigFile, "database", "auto_cleanup_old_logs", CBool(TRUE))
        cleanup_threshold == get_config_value(ConfigFile, "database", "cleanup_days_threshold", CInt(90))
        \* timedelta(days="...") raises TypeError, which the try swallows
        pruned == IF CfgTruthy(auto) /\ cleanup_threshold.t # "str" /\ fault # "prune"
                  THEN inserted \ Pruned(inserted, CfgInt(cleanup_threshold))
                  ELSE inserted
        max_logs == get_config_value(ConfigFile, "database", "max_logs_per_branch", CInt(1000))
    IN IF max_logs.t = "str"
       THEN \* "max_logs > 0" is evaluated outside the try
            [logs |-> pruned, seq |-> row.id, err |-> "TypeError", inserted |-> row.id,
             tree |-> ensured.tree]
       ELSE [logs |-> IF CapRuns(max_logs, fault)
                      THEN pruned \ OverCap(pruned, active, CfgInt(max_logs))
                      ELSE pruned,
             seq |-> row.id, err |-> "none", inserted |-> row.id, tree |-> ensured.tree]

\* The maintenance steps that run under the configuration, and so can fail.
Faults ==
  {"none"}
  \cup (IF CfgTruthy(get_config_value(ConfigFile, "database", "auto_cleanup_old_logs", CBool(TRUE)))
        THEN {"prune"} ELSE {})
  \cup (LET m == get_config_value(ConfigFile, "database", "max_logs_per_branch", CInt(1000))
        IN IF m.t # "str" /\ CfgInt(m) > 0 THEN {"cap"} ELSE {})

\* A call log_work(message, extra_info) with one of the inputs, in which
\* one of the maintenance steps may fail.
LogWork(inputs, faults) ==
  /\ call.op = "idle"
  /\ inRepo => seq < MaxAppends
  /\ \E ensured \in {Ensured}, possible \in {Faults} :
       \E in \in inputs, fault \in faults \cap possible :
        \E r \in {log_work(ensured, in[1], in[2], fault)} :
          LET message == in[1]
              extra_info == in[2]
          IN /\ logs' = r.logs
             /\ seq' = r.seq
             /\ call' = [NoCall EXCEPT !.op = "log_work", !.message = message,
                                       !.extra = extra_info, !.branch = active]
             /\ ret' = [NoRet EXCEPT !.err = r.err, !.inserted = r.inserted,
                                     !.fault = fault, !.before = CurrentTree]
             /\ SetFiles(r.tree)
  /\ UNCHANGED env

\* The limit of a call without one, taken as 50 whatever is configured.
DefaultLimit_Hardcoded == CInt(50)

\* "if limit is None: limit = get_config_value("logging", "default_limit", 50)"
DefaultLimit == get_config_value(ConfigFile, "logging", "default_limit", CInt(50))

\* fetch_branch_logs that rejects only a negative explicit limit.
fetch_branch_logs_NoDefaultCheck(ensured, branch, hasLimit, limit) ==
  IF ensured.err # "none" THEN [err |-> ensured.err, rows |-> <<>>, tree |-> ensured.tree]
  ELSE
    LET b == IF branch = NoBranch THEN active ELSE branch
        lim == IF hasLimit THEN CInt(limit)
               ELSE get_config_value(ConfigFile, "logging", "default_limit", CInt(50))
    IN IF hasLimit /\ limit <= 0 THEN [err |-> "none", rows |-> <<>>, tree |-> ensured.tree]
       ELSE IF StoreFailure(ensured) # "none"
            THEN [err |-> StoreFailure(ensured), rows |-> <<>>, tree |-> ensured.tree]
       ELSE LET rows == SelectBranch(logs, b, CfgInt(lim))
            IN [err |-> "none", rows |-> [i \in DOMAIN rows |-> Entry(rows[i])],
                tree |-> ensured.tree]

\* fetch_branch_logs(branch, limit): the outcome.
fetch_branch_logs(ensured, branch, hasLimit, limit) ==
  IF ensured.err # "none" THEN [err |-> ensured.err, rows |-> <<>>, tree |-> ensured.tree]
  ELSE
    LET b == IF branch = NoBranch THEN active ELSE branch
        lim == IF hasLimit THEN CInt(limit) ELSE DefaultLimit
    IN IF lim.t = "str" THEN [err |-> "TypeError", rows |-> <<>>, tree |-> ensured.tree]
       ELSE IF CfgInt(lim) <= 0 THEN [err |-> "none", rows |-> <<>>, tree |-> ensured.tree]
       ELSE IF StoreFailure(ensured) # "none"
            THEN [err |-> StoreFailure(ensured), rows |-> <<>>, tree |-> ensured.tree]
       ELSE LET rows == SelectBranch(logs, b, CfgInt(lim))
            IN [err |-> "none", rows |-> [i \in DOMAIN rows |-> Entry(rows[i])],
                tree |-> ensured.tree]

\* A fetch that takes the rows it returns out of the table.
FetchBranchLogs_Consuming(requests) ==
  /\ call.op = "idle"
  /\ \E ensured \in {Ensured} :
       \E q \in requests :
        \E r \in {fetch_branch_logs(ensured, q[1], q[2], q[3])} :
          /\ call' = [NoCall EXCEPT !.op = "fetch_branch_logs", !.branch = q[1],
                                    !.hasLimit = q[2], !.limit = q[3]]
          /\ ret' = [NoRet EXCEPT !.err = r.err, !.rows = r.rows, !.before = CurrentTree]
          /\ SetFiles(r.tree)
          /\ logs' = {row \in logs : Entry(row) \notin Range(r.rows)}
  /\ UNCHANGED <<seq, env>>

\* A call fetch_branch_logs(branch, limit) with one of the requests
\* <<branch, whether a limit is given, limit>>.
FetchBranchLogs(requests) ==
  /\ call.op = "idle"
  /\ \E ensured \in {Ensured} :
       \E q \in requests :
        \E r \in {fetch_branch_logs(ensured, q[1], q[2], q[3])} :
          LET branch == q[1]
              hasLimit == q[2]
              limit == q[3]
          IN /\ call' = [NoCall EXCEPT !.op = "fetch_branch_logs", !.branch = branch,
                                       !.hasLimit = hasLimit, !.limit = limit]
             /\ ret' = [NoRet EXCEPT !.err = r.err, !.rows = r.rows,
                                     !.before = CurrentTree]
             /\ SetFiles(r.tree)
  /\ UNCHANGED <<logs, seq, env>>

\* A call prune_old_logs(days) with one of the numbers of days.
PruneOldLogs(daysGiven) ==
  /\ call.op = "idle"
  /\ \E ensured \in {Ensured} :
       \E days \in daysGiven :
          LET failure == StoreFailure(ensured)
              deleted == IF failure = "none" THEN Pruned(logs, days) ELSE {}
          IN /\ logs' = logs \ deleted
             /\ ret' = [NoRet EXCEPT !.err = failure, !.count = Cardinality(deleted),
                                     !.before = CurrentTree]
             /\ SetFiles(ensured.tree)
             /\ call' = [NoCall EXCEPT !.op = "prune_old_logs", !.days = days]
  /\ UNCHANGED <<seq, env>>

\* The reconciliation against the active branch alone.
Orphans_NotActive(rows, existing_branches) ==
  {r \in rows : r.branch # active}

\* cleanup_deleted_branches(): the rows it deletes.
Orphans(rows, existing_branches) ==
  LET logged_branches == {r.branch : r \in rows}
      gone == {b \in logged_branches : b \notin existing_branches}
  IN {r \in rows : r.branch \in gone}

CleanupDeletedBranches ==
  /\ call.op = "idle"
  /\ \E ensured \in {Ensured} :
       LET failure == StoreFailure(ensured)
           deleted == IF failure = "none" THEN Orphans(logs, branches) ELSE {}
       IN /\ logs' = logs \ deleted
          /\ ret' = [NoRet EXCEPT !.err = failure, !.count = Cardinality(deleted),
                                  !.before = CurrentTree]
          /\ SetFiles(ensured.tree)
  /\ call' = [NoCall EXCEPT !.op = "cleanup_deleted_branches"]
  /\ UNCHANGED <<seq, env>>

\* The library call ensure_db(): it returns the path of the store.  The
\* rows of an existing table are not touched.
EnsureDb ==
  /\ call.op = "idle"
  /\ \E ensured \in {Ensured} :
       /\ ret' = [NoRet EXCEPT !.err = ensured.err,
                               !.out = IF ensured.err = "none" THEN DbPath(ensured.tree)
                                       ELSE <<>>,
                               !.before = CurrentTree]
       /\ SetFiles(ensured.tree)
  /\ call' = [NoCall EXCEPT !.op = "ensure_db"]
  /\ UNCHANGED <<logs, seq, env>>

\* The library call load_config()
LoadConfig ==
  /\ call.op = "idle"
  /\ IF RepoFailure # "none"
     THEN /\ ret' = [NoRet EXCEPT !.err = RepoFailure, !.before = CurrentTree]
          /\ UNCHANGED files
     ELSE /\ ret' = [NoRet EXCEPT !.out = load_config(ConfigFile), !.before = CurrentTree]
          /\ SetFiles(ConfigLoaded(CurrentTree))
  /\ call' = [NoCall EXCEPT !.op = "load_config"]
  /\ UNCHANGED <<logs, seq, env>>

\* The library call get_config_value(section, key, default) with one of the
\* queries <<section, key>>.
GetConfigValue(queries, default) ==
  /\ call.op = "idle"
  /\ \E q \in queries :
       /\ IF RepoFailure # "none"
          THEN /\ ret' = [NoRet EXCEPT !.err = RepoFailure, !.before = CurrentTree]
               /\ UNCHANGED files
          ELSE /\ ret' = [NoRet EXCEPT !.out = get_config_value(ConfigFile, q[1], q[2], default),
                                       !.before = CurrentTree]
               /\ SetFiles(ConfigLoaded(CurrentTree))
       /\ call' = [NoCall EXCEPT !.op = "get_config_value", !.message = q[1], !.branch = q[2]]
  /\ UNCHANGED <<logs, seq, env>>

\* load_config() in a process whose DEFAULT_CONFIG dict is module_defaults:
\* the merge copies each section of that dict and updates the copy with
\* the section of the file; the except branch returns the dict itself.
ModuleLoad(module_defaults, file) ==
  LET file_config == IF file.status = "absent" THEN ScaffoldToml ELSE file.content
  IN IF file.status = "unparseable" THEN module_defaults
     ELSE [section \in DOMAIN module_defaults |->
             IF section \in DOMAIN file_config
             THEN MergeSection(module_defaults[section], file_config[section])
             ELSE module_defaults[section]]

\* config.get(section, {}).get(key, default)
Lookup(config, section, key, default) ==
  IF section \in DOMAIN config /\ key \in DOMAIN config[section]
  THEN config[section][key]
  ELSE default

\* "return DEFAULT_CONFIG": the object the caller gets is the module-level
\* dict, sections included.
IsDefaults(file) == file.status = "unparseable"

\* dict.copy() is shallow: a value the section of the file does not replace
\* is, in the returned section, the object the module-level dict holds.
SharedValue(file, section, key) ==
  LET file_config == IF file.status = "absent" THEN ScaffoldToml ELSE file.content
  IN \/ IsDefaults(file)
     \/ ~(section \in DOMAIN file_config /\ key \in DOMAIN file_config[section])

\* The file the call that has returned was answered from.
FileBefore == TomlFile(ret.before.cfgFile, ret.before.toml)

\* load_config() in the running process
ModuleLoadConfig ==
  /\ call.op = "idle"
  /\ IF RepoFailure # "none"
     THEN /\ ret' = [NoRet EXCEPT !.err = RepoFailure, !.before = CurrentTree]
          /\ UNCHANGED files
     ELSE /\ ret' = [NoRet EXCEPT !.out = ModuleLoad(defaults, ConfigFile),
                                  !.before = CurrentTree]
          /\ SetFiles(ConfigLoaded(CurrentTree))
  /\ call' = [NoCall EXCEPT !.op = "load_config"]
  /\ UNCHANGED <<logs, seq, env>>

\* get_config_value(section, key, default) in the running process
ModuleGetConfigValue(queries, default) ==
  /\ call.op = "idle"
  /\ \E q \in queries :
       /\ IF RepoFailure # "none"
          THEN /\ ret' = [NoRet EXCEPT !.err = RepoFailure, !.before = CurrentTree]
               /\ UNCHANGED files
          ELSE /\ ret' = [NoRet EXCEPT
                            !.out = Lookup(ModuleLoad(defaults, ConfigFile), q[1], q[2], default),
                            !.before = CurrentTree]
               /\ SetFiles(ConfigLoaded(CurrentTree))
       /\ call' = [NoCall EXCEPT !.op = "get_config_value", !.message = q[1], !.branch = q[2]]
  /\ UNCHANGED <<logs, seq, env>>

\* The caller writes a key of a section of the configuration it got:
\* config[section][key] = value.  The section is a copy unless the
\* configuration is the module-level dict.
SetKey(section, key, value) ==
  /\ call.op = "load_config" /\ ret.err = "none"
  /\ ret.out[section][key] # value
  /\ ret' = [ret EXCEPT !.out[section][key] = value]
  /\ defaults' = IF IsDefaults(FileBefore)
                 THEN [defaults EXCEPT ![section][key] = value]
                 ELSE defaults
  /\ UNCHANGED <<logs, seq, now, tz, inRepo, repoExc, active, branches, procs, files, call>>

\* The caller appends to a list of the configuration it got:
\* config[section][key].append(entry).
AppendEntry(section, key, entry) ==
  /\ call.op = "load_config" /\ ret.err = "none"
  /\ ret.out[section][key].t = "list"
  /\ entry \notin Range(ret.out[section][key].l)
  /\ ret' = [ret EXCEPT !.out[section][key].l = Append(@, entry)]
  /\ defaults' = IF SharedValue(FileBefore, section, key)
                 THEN [defaults EXCEPT ![section][key].l = Append(@, entry)]
                 ELSE defaults
  /\ UNCHANGED <<logs, seq, now, tz, inRepo, repoExc, active, branches, procs, files, call>>

\* The library call create_default_config(): it returns the path of the
\* file it wrote.
CreateDefaultConfig ==
  /\ call.op = "idle"
  /\ IF RepoFailure # "none"
     THEN /\ ret' = [NoRet EXCEPT !.err = RepoFailure, !.before = CurrentTree]
          /\ UNCHANGED files
     ELSE /\ ret' = [NoRet EXCEPT !.out = get_config_path, !.before = CurrentTree]
          /\ SetFiles(create_default_config(CurrentTree))
  /\ call' = [NoCall EXCEPT !.op = "create_default_config"]
  /\ UNCHANGED <<logs, seq, env>>

\* The library call get_db_path()
GetDbPath ==
  /\ call.op = "idle"
  /\ IF RepoFailure # "none"
     THEN /\ ret' = [NoRet EXCEPT !.err = RepoFailure, !.before = CurrentTree]
          /\ UNCHANGED files
     ELSE /\ ret' = [NoRet EXCEPT !.out = DbPath(CurrentTree), !.before = CurrentTree]
          /\ SetFiles(ConfigLoaded(CurrentTree))
  /\ call' = [NoCall EXCEPT !.op = "get_db_path"]
  /\ UNCHANGED <<logs, seq, env>>

\* The values of --extra on the command line.
BrokenJson == SubSeq(Dumps(FeaturePayload), 1, Len(Dumps(FeaturePayload)) - 1)
ExtraArgs == {NoArg, Arg(<<>>), Arg(Dumps(FeaturePayload)), Arg(BrokenJson)}

\* What main() leaves on stderr: its handler prints "Error: ..." for a
\* ValueError; any other exception leaves the interpreter's traceback.
Stderr(err) ==
  IF err = "none" THEN "" ELSE IF err = "ValueError" THEN "Error" ELSE "Traceback"

\* main() with the command "log_work <message> [--extra <text>]"
CliLogWork(message, arg) ==
  /\ call.op = "idle"
  /\ inRepo => seq < MaxAppends
  /\ IF arg.given /\ arg.text # <<>> /\ ~Parses(arg.text)
     THEN \* json.JSONDecodeError becomes ValueError: "Error: ..." and exit 1
          /\ ret' = [NoRet EXCEPT !.err = "ValueError", !.exit = 1, !.stderr = "Error"]
          /\ UNCHANGED <<logs, seq, files>>
     ELSE \E r \in {log_work(Ensured, message,
                              IF arg.given /\ arg.text # <<>> THEN Loads(arg.text) ELSE None,
                              "none")} :
             /\ logs' = r.logs
             /\ seq' = r.seq
             /\ ret' = [NoRet EXCEPT !.err = r.err, !.inserted = r.inserted,
                                     !.exit = IF r.err = "none" THEN 0 ELSE 1,
                                     !.stderr = Stderr(r.err)]
             /\ SetFiles(r.tree)
  /\ call' = [NoCall EXCEPT !.op = "cli log_work", !.message = message, !.arg = arg,
                            !.branch = active]
  /\ UNCHANGED env

\* ------------------------------------------------------------------------
\* ensure_db() step by step, for calls that run side by side
\* ------------------------------------------------------------------------
\* A process at the start of ensure_db(): where it is, the position and the
\* buffered writes of its handle on .gitignore, and the exception it raised.
Started == [pc |-> "exists", offset |-> 0, buffer |-> <<>>, err |-> "none"]

\* The process moves on.
Goto(p, pc) == procs' = [procs EXCEPT ![p].pc = pc]
Raise(p, err) == procs' = [procs EXCEPT ![p].pc = "failed", ![p].err = err]

\* ensure_eidex_directory(): "if not os.path.exists(eidex_dir)"
DirExists(p) ==
  /\ procs[p].pc = "exists"
  /\ Goto(p, IF eidexDir THEN "get_db_path" ELSE "makedirs")
  /\ UNCHANGED <<logs, seq, now, tz, inRepo, repoExc, active, branches, files, call, ret, defaults>>

\* ensure_eidex_directory(): os.makedirs(eidex_dir), which raises
\* FileExistsError on a directory that exists.
MakeDirs(p) ==
  /\ procs[p].pc = "makedirs"
  /\ IF eidexDir
     THEN Raise(p, "FileExistsError") /\ UNCHANGED files
     ELSE Goto(p, "get_db_path") /\ SetFiles(ensure_eidex_directory(CurrentTree))
  /\ UNCHANGED <<logs, seq, now, tz, inRepo, repoExc, active, branches, call, ret, defaults>>

\* get_db_path(): the configuration is loaded.
LoadPath(p) ==
  /\ procs[p].pc = "get_db_path"
  /\ Goto(p, "create")
  /\ SetFiles(ConfigLoaded(CurrentTree))
  /\ UNCHANGED <<logs, seq, now, tz, inRepo, repoExc, active, branches, call, ret, defaults>>

\* CREATE TABLE IF NOT EXISTS, CREATE INDEX IF NOT EXISTS and commit; then
\* the test of auto_add_to_gitignore.
CreateSchema(p) ==
  /\ procs[p].pc = "create"
  /\ LET table == CreateIfNotExists(schema, LogsTable)
         index == CreateIfNotExists(table.schema, BranchIndex)
         auto == TreeValue(CurrentTree, "git", "auto_add_to_gitignore", CBool(TRUE))
     IN IF table.err # "none" \/ index.err # "none"
        THEN Raise(p, "OperationalError") /\ UNCHANGED files
        ELSE /\ Goto(p, IF CfgTruthy(auto) THEN "gitignore" ELSE "done")
             /\ SetFiles([CurrentTree EXCEPT !.schema = index.schema])
  /\ UNCHANGED <<logs, seq, now, tz, inRepo, repoExc, active, branches, call, ret, defaults>>

\* "if os.path.exists(gitignore_path)"
IgnoreExists(p) ==
  /\ procs[p].pc = "gitignore"
  /\ Goto(p, IF gitignore.exists THEN "open r+" ELSE "open w")
  /\ UNCHANGED <<logs, seq, now, tz, inRepo, repoExc, active, branches, files, call, ret, defaults>>

\* open(gitignore_path, "r+") with the read and the loop, whose writes stay
\* in the buffer of the handle, after what was read; or open(gitignore_path,
\* "w"), which empties the file, with its loop.
OpenIgnore(p) ==
  /\ procs[p].pc \in {"open r+", "open w"}
  /\ LET listed == TreeValue(CurrentTree, "git", "gitignore_entries", CList(<<S_eidex_dir>>)).l
         entries == [i \in DOMAIN listed |-> Flatten(listed[i])]
     IN IF procs[p].pc = "open w"
        THEN /\ procs' = [procs EXCEPT ![p].pc = "close", ![p].offset = 0,
                                       ![p].buffer = AllWrites(entries)]
             /\ SetFiles([CurrentTree EXCEPT !.gitignore = Gitignore(<<>>)])
        ELSE IF ~gitignore.exists
        THEN Raise(p, "FileNotFoundError") /\ UNCHANGED files
        ELSE /\ procs' = [procs EXCEPT ![p].pc = "close",
                                       ![p].offset = Len(gitignore.content),
                                       ![p].buffer = MissingWrites(gitignore.content, entries)]
             /\ UNCHANGED files
  /\ UNCHANGED <<logs, seq, now, tz, inRepo, repoExc, active, branches, call, ret, defaults>>

\* The end of the with block: the buffer is written at the position of the
\* handle, and ensure_db returns.
CloseIgnore(p) ==
  /\ procs[p].pc = "close"
  /\ procs' = [procs EXCEPT ![p].pc = "done", ![p].buffer = <<>>]
  /\ IF procs[p].buffer = <<>>
     THEN UNCHANGED files
     ELSE SetFiles([CurrentTree EXCEPT
                      !.gitignore = Gitignore(WriteAt(gitignore.content, procs[p].offset,
                                                      procs[p].buffer))])
  /\ UNCHANGED <<logs, seq, now, tz, inRepo, repoExc, active, branches, call, ret, defaults>>

\* The command verbs of main(), and those whose operation opens the store.
Verbs ==
  {"log_work", "fetch_branch_logs", "cleanup_deleted_branches", "prune_old_logs",
   "show_config", "init_config", "create_context"}
StoreVerbs ==
  {"log_work", "fetch_branch_logs", "cleanup_deleted_branches", "prune_old_logs"}

\* The operation main() dispatches the verb to: the table, the sequence, the
\* files and the exception it leaves.  started is the outcome of the first
\* step of the operation: ensure_db() for the verbs that open the store,
\* get_repo_root() for the others.
dispatch(verb, started, message, days) ==
  LET failure == StoreFailure(started)
      done(err, rows, last, tree) == [err |-> err, logs |-> rows, seq |-> last, tree |-> tree]
  IN CASE verb = "log_work" ->
            LET r == log_work(started, message, None, "none")
            IN done(r.err, r.logs, r.seq, r.tree)
       [] verb = "fetch_branch_logs" ->
            LET r == fetch_branch_logs(started, NoBranch, FALSE, 0)
            IN done(r.err, logs, seq, r.tree)
       [] verb = "cleanup_deleted_branches" ->
            done(failure, IF failure = "none" THEN logs \ Orphans(logs, branches) ELSE logs,
                 seq, started.tree)
       [] verb = "prune_old_logs" ->
            done(failure, IF failure = "none" THEN logs \ Pruned(logs, days) ELSE logs,
                 seq, started.tree)
       [] verb = "show_config" ->
            done(started.err, logs, seq,
                 IF started.err = "none" THEN ConfigLoaded(started.tree) ELSE started.tree)
       [] verb = "init_config" ->
            done(started.err, logs, seq,
                 IF started.err = "none" THEN create_default_config(started.tree)
                 ELSE started.tree)
       [] verb = "create_context" ->
            done(started.err, logs, seq,
                 IF started.err = "none" THEN create_ai_context_file(started.tree)
                 ELSE started.tree)

\* main() with one of the verbs and well-formed arguments; storeFaults says
\* whether SQLite may fail to open or read the store file, daysGiven are the
\* arguments of prune_old_logs.
Main(verbs, storeFaults, daysGiven) ==
  /\ call.op = "idle"
  /\ \E verb \in verbs, storeFails \in storeFaults,
        message \in Messages, days \in daysGiven :
       /\ (verb = "log_work" /\ inRepo) => seq < MaxAppends
       /\ verb # "log_work" => message = "fix bug"
       /\ verb # "prune_old_logs" => days = 0
       /\ verb \notin StoreVerbs => ~storeFails
       /\ \E started \in {IF verb \in StoreVerbs
                           THEN ensure_db(CurrentTree, RepoFailure, storeFails)
                           ELSE Outcome(RepoFailure, CurrentTree)} :
            \E r \in {dispatch(verb, started, message, days)} :
              /\ logs' = r.logs
              /\ seq' = r.seq
              /\ SetFiles(r.tree)
              /\ ret' = [NoRet EXCEPT !.err = r.err,
                                      !.exit = IF r.err = "none" THEN 0 ELSE 1,
                                      !.stderr = Stderr(r.err),
                                      !.fault = IF storeFails THEN "store" ELSE "none",
                                      !.before = CurrentTree]
              /\ call' = [NoCall EXCEPT !.op = "cli " \o verb, !.message = message,
                                        !.days = days]
  /\ UNCHANGED env

\* Where a statement on the store may fail with sqlite3.OperationalError
\* (the database is locked, the file is not a database): in the CREATE
\* statements of ensure_db, in the statement of the operation itself, or,
\* for log_work, in one of its maintenance steps.
StatementFaults == {"none", "create", "statement", "prune", "cap"}

\* Whether the call gets to the statement that fails, having connected.
Hits(op, fault, started) ==
  LET inserted == started.err = "none" /\ StoreFailure(started) = "none"
      lim == get_config_value(ConfigFile, "logging", "default_limit", CInt(50))
      auto == get_config_value(ConfigFile, "database", "auto_cleanup_old_logs", CBool(TRUE))
      threshold == get_config_value(ConfigFile, "database", "cleanup_days_threshold", CInt(90))
      max_logs == get_config_value(ConfigFile, "database", "max_logs_per_branch", CInt(1000))
  IN CASE fault = "none" -> FALSE
       [] fault = "create" -> RepoFailure = "none"
       [] fault = "statement" ->
            /\ op # "ensure_db" /\ inserted
            /\ op = "fetch_branch_logs" => (lim.t # "str" /\ CfgInt(lim) > 0)
       [] fault = "prune" ->
            op = "log_work" /\ inserted /\ CfgTruthy(auto) /\ threshold.t # "str"
       [] fault = "cap" ->
            /\ op = "log_work" /\ inserted
            /\ max_logs.t # "str" /\ CfgInt(max_logs) > 0

\* A library call in which a statement may fail.  Every function of
\* database.py runs connect, execute, commit and close in a straight line,
\* so close() is skipped when a statement raises: the connection stays open
\* until the runtime finalises the object.  finalised says whether it has
\* done so when log_work returns after swallowing the exception; an
\* exception that leaves the call keeps the frame, and the connection, alive.
FailingCall(ops, faults) ==
  /\ call.op = "idle"
  /\ \E op \in ops, fault \in faults, finalised \in BOOLEAN :
       /\ (op = "log_work" /\ inRepo) => seq < MaxAppends
       /\ \E started \in {ensure_db(CurrentTree, RepoFailure, fault = "create")} :
            \E hit \in {Hits(op, fault, started)} :
              /\ fault # "none" => hit
              /\ finalised => fault \in {"prune", "cap"}
              /\ \E r \in {IF fault = "statement"
                            THEN [err |-> "OperationalError", logs |-> logs, seq |-> seq,
                                  tree |-> started.tree]
                            ELSE IF op = "ensure_db"
                            THEN [err |-> started.err, logs |-> logs, seq |-> seq,
                                  tree |-> started.tree]
                            ELSE IF op = "log_work"
                            THEN LET w == log_work(started, "fix bug", None,
                                                   IF fault \in {"prune", "cap"} THEN fault
                                                   ELSE "none")
                                 IN [err |-> w.err, logs |-> w.logs, seq |-> w.seq,
                                     tree |-> w.tree]
                            ELSE dispatch(op, started, "fix bug", 0)} :
                   /\ logs' = r.logs
                   /\ seq' = r.seq
                   /\ SetFiles(r.tree)
                   /\ ret' = [NoRet EXCEPT !.err = r.err, !.fault = fault,
                                           !.open = IF hit /\ ~finalised THEN 1 ELSE 0,
                                           !.before = CurrentTree]
                   /\ call' = [NoCall EXCEPT !.op = op,
                                             !.message = IF op = "log_work" THEN "fix bug" ELSE ""]
  /\ UNCHANGED env

\* ------------------------------------------------------------------------
\* The environment
\* ------------------------------------------------------------------------
\* The caller takes the outcome of the call; the next call can start.
Return ==
  /\ call.op # "idle"
  /\ call' = NoCall
  /\ ret' = NoRet
  /\ UNCHANGED <<logs, seq, env, files>>

\* The wall clock advances.
Tick ==
  /\ call.op = "idle"
  /\ now < MaxTick
  /\ now' = now + 1
  /\ UNCHANGED <<logs, seq, tz, inRepo, repoExc, active, branches, procs, files, call, ret, defaults>>

\* git checkout <b>
Checkout(b) ==
  /\ call.op = "idle"
  /\ inRepo
  /\ b \in branches \ {active}
  /\ active' = b
  /\ UNCHANGED <<logs, seq, now, tz, inRepo, repoExc, branches, procs, files, call, ret, defaults>>

\* git branch -D <b>
DeleteBranch(b) ==
  /\ call.op = "idle"
  /\ inRepo
  /\ b \in branches \ {active}
  /\ branches' = branches \ {b}
  /\ UNCHANGED <<logs, seq, now, tz, inRepo, repoExc, active, procs, files, call, ret, defaults>>

\* git branch <b>: a branch is created from the commit of the active one.
CreateBranch(b) ==
  /\ call.op = "idle"
  /\ inRepo
  /\ active \in branches
  /\ b \notin branches
  /\ branches' = branches \cup {b}
  /\ UNCHANGED <<logs, seq, now, tz, inRepo, repoExc, active, procs, files, call, ret, defaults>>

\* git commit on a branch without commits: HEAD names the branch from
\* git init (or checkout --orphan) on, refs/heads/<branch> exists from the
\* first commit on.
GitCommit ==
  /\ call.op = "idle"
  /\ inRepo
  /\ active \notin branches
  /\ branches' = branches \cup {active}
  /\ UNCHANGED <<logs, seq, now, tz, inRepo, repoExc, active, procs, files, call, ret, defaults>>

\* ------------------------------------------------------------------------
\* cleanup_deleted_branches() step by step, side by side with other calls
\* ------------------------------------------------------------------------
\* The call in progress: its position, the two sets it read, the rows its
\* DELETE statements removed in the open transaction, their number, and
\* whether its connection holds the write lock of the store.
CleanupAt(pc) ==
  [pc |-> pc, existing_branches |-> {}, logged_branches |-> {}, deleted |-> {},
   deleted_count |-> 0, writing |-> FALSE, err |-> "none"]

Cleaning(pc) == procs # NoProcs /\ procs[1].pc = pc

\* Another connection cannot write while the transaction of the loop is
\* open: its statement raises "database is locked".
Locked == procs # NoProcs /\ procs[1].writing

\* Every DELETE of the loop committed on its own.
Visible_Autocommit(rows, deleted) == rows \ deleted

\* What the other connections see of the store while the DELETE statements
\* of the loop wait for the one conn.commit() after it.
Visible(rows, deleted) == rows

\* "ensure_db()"
CleanupEnsureDb ==
  /\ procs = NoProcs
  /\ \E ensured \in {Ensured} :
       /\ procs' = IF StoreFailure(ensured) = "none"
                   THEN <<CleanupAt("branches")>>
                   ELSE <<[CleanupAt("raised") EXCEPT !.err = StoreFailure(ensured)]>>
       /\ SetFiles(ensured.tree)
  /\ UNCHANGED <<logs, seq, now, tz, inRepo, repoExc, active, branches, call, ret, defaults>>

\* "existing_branches = {b.name for b in repo.branches}"
CleanupReadBranches ==
  /\ Cleaning("branches")
  /\ procs' = <<[procs[1] EXCEPT !.pc = "logged", !.existing_branches = branches]>>
  /\ UNCHANGED <<logs, seq, now, tz, inRepo, repoExc, active, branches, files, call, ret, defaults>>

\* "SELECT DISTINCT branch FROM logs"
CleanupReadLogged ==
  /\ Cleaning("logged")
  /\ procs' = <<[procs[1] EXCEPT !.pc = "loop",
                                 !.logged_branches = {r.branch : r \in logs}]>>
  /\ UNCHANGED <<logs, seq, now, tz, inRepo, repoExc, active, branches, files, call, ret, defaults>>

\* One turn of "for branch in logged_branches", in the order the set gives:
\* the DELETE of a branch missing from existing_branches removes the rows
\* the branch has now, in a transaction the first DELETE opens; the
\* statement may raise.
CleanupDelete ==
  /\ Cleaning("loop")
  /\ \E branch \in procs[1].logged_branches, raises \in BOOLEAN :
       LET rest == procs[1].logged_branches \ {branch}
           gone == {r \in logs \ procs[1].deleted : r.branch = branch}
       IN IF branch \in procs[1].existing_branches
          THEN /\ ~raises
               /\ procs' = <<[procs[1] EXCEPT !.logged_branches = rest]>>
               /\ UNCHANGED logs
          ELSE IF raises
          THEN /\ procs' = <<[procs[1] EXCEPT !.pc = "raised", !.err = "OperationalError"]>>
               /\ UNCHANGED logs
          ELSE /\ procs' = <<[procs[1] EXCEPT
                                !.logged_branches = rest,
                                !.deleted = @ \cup gone,
                                !.deleted_count = @ + Cardinality(gone),
                                !.writing = TRUE]>>
               /\ logs' = Visible(logs, gone)
  /\ UNCHANGED <<seq, now, tz, inRepo, repoExc, active, branches, files, call, ret, defaults>>

\* "conn.commit()" after the loop
CleanupCommit ==
  /\ Cleaning("loop")
  /\ procs[1].logged_branches = {}
  /\ logs' = logs \ procs[1].deleted
  /\ procs' = <<[procs[1] EXCEPT !.pc = "done", !.writing = FALSE]>>
  /\ UNCHANGED <<seq, now, tz, inRepo, repoExc, active, branches, files, call, ret, defaults>>

\* The call is over: it returned deleted_count after conn.close(), or it
\* raised and the connection, never closed, is finalised with its
\* transaction rolled back.
CleanupEnd ==
  /\ procs # NoProcs
  /\ procs[1].pc \in {"done", "raised"}
  /\ procs' = NoProcs
  /\ UNCHANGED <<logs, seq, now, tz, inRepo, repoExc, active, branches, files, call, ret, defaults>>

\* ------------------------------------------------------------------------
\* log_work() step by step, two calls side by side
\* ------------------------------------------------------------------------
\* A call of log_work in progress: its position, the branch it read, the
\* id of the row it inserted, and whether the other call was under way when
\* it inserted.  Every statement is a transaction of its own, committed
\* before the next line runs; a statement that finds the store locked waits
\* for the other transaction to commit.
WriterAt(pc) == [pc |-> pc, branch |-> NoBranch, inserted |-> 0, overlapped |-> FALSE]

UnderWay(q) == procs[q].pc \in {"insert", "prune", "cap"}

\* "ensure_db()" and "branch = get_current_branch()"
WriterBegin(p) ==
  /\ procs[p].pc \in {"idle", "done", "raised"}
  /\ seq + Cardinality({q \in DOMAIN procs : procs[q].pc = "insert"}) < MaxAppends
  /\ \E ensured \in {Ensured} :
       /\ procs' = [procs EXCEPT ![p] =
                      IF StoreFailure(ensured) = "none"
                      THEN [WriterAt("insert") EXCEPT !.branch = active]
                      ELSE WriterAt("raised")]
       /\ SetFiles(ensured.tree)
  /\ UNCHANGED <<logs, seq, now, tz, inRepo, repoExc, active, branches, call, ret, defaults>>

\* "INSERT INTO logs (branch, message, extra) VALUES (?, ?, ?)" and its
\* commit
WriterInsert(p) ==
  /\ procs[p].pc = "insert"
  /\ LET row == NewRow(Sequence(logs, seq), now, procs[p].branch, "fix bug", ExtraJson(None))
     IN /\ logs' = Insert(logs, row)
        /\ seq' = row.id
        /\ procs' = [procs EXCEPT ![p].pc = "prune", ![p].inserted = row.id,
                                  ![p].overlapped = \E q \in DOMAIN procs \ {p} : UnderWay(q)]
  /\ UNCHANGED <<now, tz, inRepo, repoExc, active, branches, files, call, ret, defaults>>

\* "if get_config_value("database", "auto_cleanup_old_logs", True):" with
\* the prune_old_logs call in its try block
WriterPrune(p) ==
  /\ procs[p].pc = "prune"
  /\ LET auto == get_config_value(ConfigFile, "database", "auto_cleanup_old_logs", CBool(TRUE))
         cleanup_threshold == get_config_value(ConfigFile, "database", "cleanup_days_threshold", CInt(90))
     IN IF CfgTruthy(auto) /\ cleanup_threshold.t # "str"
        THEN \E ensured \in {Ensured} :
               /\ logs' = IF StoreFailure(ensured) = "none"
                          THEN logs \ Pruned(logs, CfgInt(cleanup_threshold))
                          ELSE logs
               /\ SetFiles(ensured.tree)
        ELSE UNCHANGED <<logs, files>>
  /\ procs' = [procs EXCEPT ![p].pc = "cap"]
  /\ UNCHANGED <<seq, now, tz, inRepo, repoExc, active, branches, call, ret, defaults>>

\* "if max_logs > 0:" with the DELETE of the cap in its try block
WriterCap(p) ==
  /\ procs[p].pc = "cap"
  /\ LET max_logs == get_config_value(ConfigFile, "database", "max_logs_per_branch", CInt(1000))
     IN IF max_logs.t = "str"
        THEN /\ procs' = [procs EXCEPT ![p].pc = "raised"]
             /\ UNCHANGED logs
        ELSE /\ procs' = [procs EXCEPT ![p].pc = "done"]
             /\ logs' = IF CapRuns(max_logs, "none")
                        THEN logs \ OverCap(logs, procs[p].branch, CfgInt(max_logs))
                        ELSE logs
  /\ UNCHANGED <<seq, now, tz, inRepo, repoExc, active, branches, files, call, ret, defaults>>

\* ------------------------------------------------------------------------
\* Specifications
\* ------------------------------------------------------------------------
\* The calls of the two scenarios: a message alone, a message with a payload.
LogInputs == {<<"fix bug", None>>, <<"add endpoint", FeaturePayload>>}
FetchLimits == {0 - 1, 0, 1, 2}
PruneDays == {0, 1}
\* A fetch of either branch with a limit, and one of the active branch
\* without.
FetchRequests == (Branches \X {TRUE} \X FetchLimits) \cup {<<NoBranch, FALSE, 0>>}

Init ==
  /\ logs = {}
  /\ seq = 0
  /\ now = 0
  /\ tz \in TzOffsets
  /\ inRepo \in BOOLEAN
  /\ repoExc \in (IF inRepo THEN {"GitCommandError"} ELSE RepoExceptions)
  /\ active = "main"
  /\ branches = Branches
  /\ toml \in ConfigFiles
  /\ cfgFile = "parseable"
  /\ eidexDir = FALSE
  /\ context = FALSE
  /\ schema = {}
  /\ gitignore = NoGitignore
  /\ procs = NoProcs
  /\ call = NoCall
  /\ ret = NoRet
  /\ defaults = DEFAULT_CONFIG

\* The library calls on one store.
Next ==
  \/ LogWork(LogInputs, {"none", "prune", "cap"})
  \/ FetchBranchLogs(FetchRequests)
  \/ PruneOldLogs(PruneDays)
  \/ CleanupDeletedBranches
  \/ Return
  \/ Tick
  \/ \E b \in Branches : Checkout(b)
  \/ \E b \in Branches : DeleteBranch(b)

Spec == Init /\ [][Next]_vars

\* The command line on one store.
NextCli ==
  \/ \E m \in Messages, a \in ExtraArgs : CliLogWork(m, a)
  \/ FetchBranchLogs((Branches \cup {NoBranch}) \X {FALSE} \X {0})
  \/ Return
  \/ Tick

SpecCli == Init /\ [][NextCli]_vars

\* Every verb of the command line, with a store that may fail.
NextMain ==
  \/ \E m \in Messages, a \in ExtraArgs : CliLogWork(m, a)
  \/ Main(Verbs, BOOLEAN, PruneDays)
  \/ Return
  \/ Tick

SpecMain == Init /\ [][NextMain]_vars

\* Local time zones behind, at and ahead of UTC, and the days given to
\* prune_old_logs: negative, zero and positive.
Zones == TzOffsets \cup {0 - 1}
ZoneDays == {0 - 1, 0, 1}

\* An empty store under the built-in configuration, in any of the zones.
InitZones ==
  /\ logs = {}
  /\ seq = 0
  /\ now = 0
  /\ tz \in Zones
  /\ inRepo = TRUE
  /\ repoExc = "GitCommandError"
  /\ active = "main"
  /\ branches = Branches
  /\ toml = [database |-> <<>>]
  /\ cfgFile = "parseable"
  /\ eidexDir = FALSE
  /\ context = FALSE
  /\ schema = {}
  /\ gitignore = NoGitignore
  /\ procs = NoProcs
  /\ call = NoCall
  /\ ret = NoRet
  /\ defaults = DEFAULT_CONFIG

\* Appends and prunes while the clock advances.
NextZones ==
  \/ LogWork(LogInputs, {"none"})
  \/ PruneOldLogs(ZoneDays)
  \/ Return
  \/ Tick

SpecZones == InitZones /\ [][NextZones]_vars

\* The library calls on a store whose statements may fail.
NextFault ==
  \/ FailingCall(StoreVerbs \cup {"ensure_db"}, StatementFaults)
  \/ Return
  \/ Tick

SpecFault == Init /\ [][NextFault]_vars

\* Every payload through log_work and fetch_branch_logs.
NextPayload ==
  \/ LogWork({"add endpoint"} \X Payloads, {"none"})
  \/ FetchBranchLogs({<<NoBranch, TRUE, 1>>})
  \/ Return

SpecPayload == Init /\ [][NextPayload]_vars

\* The eidex.toml files that configure the store and the ignore file: no
\* [git] section, registration switched off, an entry listed twice, another
\* store file name, and a file with a section and a key eidex does not know.
StoreConfigFiles ==
  { [database |-> <<>>],
    [git |-> ("auto_add_to_gitignore" :> CBool(FALSE))],
    [git |-> ("gitignore_entries" :> CList(<<S_eidex_dir, S_eidex_dir>>))],
    [database |-> ("filename" :> CStr("custom.db")),
     git |-> ("gitignore_entries" :> CList(<<S_eidex_cache>>))],
    [logging |-> ("default_limit" :> CInt(5)) @@ ("colour" :> CBool(TRUE)),
     editor |-> ("theme" :> CStr("dark"))] }

\* The content of eidex.toml while the file is absent or unparseable.
NoToml == <<>>

\* The ignore files a working tree starts with: none, an empty one, one
\* whose last line has no line feed, one with a line that contains an entry,
\* and one that lists an entry already.
GitignoreFiles ==
  { NoGitignore,
    Gitignore(<<>>),
    Gitignore(S_pyc),
    Gitignore(S_pyc \o <<LF>> \o S_build_eidex \o <<LF>>),
    Gitignore(S_eidex_dir \o <<LF>> \o S_pyc \o <<LF>>) }

\* A working tree in which eidex has not run, or has run before.
InitStore ==
  /\ logs = {}
  /\ seq = 0
  /\ now = 0
  /\ tz = 0
  /\ inRepo \in BOOLEAN
  /\ repoExc \in (IF inRepo THEN {"GitCommandError"} ELSE RepoExceptions)
  /\ active = "main"
  /\ branches = Branches
  /\ cfgFile \in TomlStates
  /\ toml \in (IF cfgFile = "parseable" THEN StoreConfigFiles ELSE {NoToml})
  /\ eidexDir = FALSE
  /\ context = FALSE
  /\ schema = {}
  /\ gitignore \in GitignoreFiles
  /\ procs = NoProcs
  /\ call = NoCall
  /\ ret = NoRet
  /\ defaults = DEFAULT_CONFIG

\* ensure_db called any number of times, between calls that write entries.
NextStore ==
  \/ EnsureDb
  \/ LogWork(LogInputs, {"none"})
  \/ Return

SpecStore == InitStore /\ [][NextStore]_vars

\* The <<section, key>> pairs asked of get_config_value.
ConfigQueries ==
  { <<"database", "filename">>, <<"logging", "default_limit">>,
    <<"git", "gitignore_entries">>, <<"database", "nonexistent_key">>,
    <<"nonexistent", "key">>, <<"logging", "colour">>, <<"editor", "theme">> }

\* A working tree with or without eidex.toml and AI_CONTEXT.md.
InitConfig ==
  /\ logs = {}
  /\ seq = 0
  /\ now = 0
  /\ tz = 0
  /\ inRepo \in BOOLEAN
  /\ repoExc \in (IF inRepo THEN {"GitCommandError"} ELSE RepoExceptions)
  /\ active = "main"
  /\ branches = Branches
  /\ cfgFile \in TomlStates
  /\ toml \in (IF cfgFile = "parseable" THEN StoreConfigFiles \cup ConfigFiles ELSE {NoToml})
  /\ context \in BOOLEAN
  /\ eidexDir = context
  /\ schema = {}
  /\ gitignore = NoGitignore
  /\ procs = NoProcs
  /\ call = NoCall
  /\ ret = NoRet
  /\ defaults = DEFAULT_CONFIG

\* The reads of the configuration.
NextConfig ==
  \/ LoadConfig
  \/ GetConfigValue(ConfigQueries, CStr("fallback"))
  \/ GetDbPath
  \/ CreateDefaultConfig
  \/ Return

SpecConfig == InitConfig /\ [][NextConfig]_vars

\* A process that reads the configuration and changes what it was given.
NextModule ==
  \/ ModuleLoadConfig
  \/ ModuleGetConfigValue(ConfigQueries, CStr("fallback"))
  \/ SetKey("logging", "default_limit", CInt(7))
  \/ AppendEntry("git", "gitignore_entries", S_pyc)
  \/ Return

SpecModule == InitConfig /\ [][NextModule]_vars

\* The processes that call ensure_db() side by side.
Procs == {1, 2}

\* A repository eidex never ran in: no .eidex directory, no store, with or
\* without eidex.toml and .gitignore.
InitRace ==
  /\ logs = {}
  /\ seq = 0
  /\ now = 0
  /\ tz = 0
  /\ inRepo = TRUE
  /\ repoExc = "GitCommandError"
  /\ active = "main"
  /\ branches = Branches
  /\ cfgFile \in {"absent", "parseable"}
  /\ toml \in (IF cfgFile = "parseable"
               THEN {[database |-> <<>>], [git |-> ("auto_add_to_gitignore" :> CBool(FALSE))]}
               ELSE {NoToml})
  /\ eidexDir = FALSE
  /\ context = FALSE
  /\ schema = {}
  /\ gitignore \in {NoGitignore, Gitignore(Flatten(S_pyc \o <<LF>>))}
  /\ procs = [p \in Procs |-> Started]
  /\ call = NoCall
  /\ ret = NoRet
  /\ defaults = DEFAULT_CONFIG

NextRace ==
  \E p \in Procs :
    \/ DirExists(p)
    \/ MakeDirs(p)
    \/ LoadPath(p)
    \/ CreateSchema(p)
    \/ IgnoreExists(p)
    \/ OpenIgnore(p)
    \/ CloseIgnore(p)

SpecRace == InitRace /\ [][NextRace]_vars

\* The names a branch of the repository can have.
RepoBranches == Branches \cup {"hotfix"}

\* A repository with one branch and no entry yet.
InitCleanup ==
  /\ logs = {}
  /\ seq = 0
  /\ now = 0
  /\ tz = 0
  /\ inRepo = TRUE
  /\ repoExc = "GitCommandError"
  /\ active = "main"
  /\ branches = {"main"}
  /\ toml = [database |-> <<>>]
  /\ cfgFile = "parseable"
  /\ eidexDir = FALSE
  /\ context = FALSE
  /\ schema = {}
  /\ gitignore = NoGitignore
  /\ procs = NoProcs
  /\ call = NoCall
  /\ ret = NoRet
  /\ defaults = DEFAULT_CONFIG

\* One cleanup_deleted_branches call step by step, while branches are
\* created, checked out and deleted and log_work is called.
NextCleanup ==
  \/ CleanupEnsureDb
  \/ CleanupReadBranches
  \/ CleanupReadLogged
  \/ CleanupDelete
  \/ CleanupCommit
  \/ CleanupEnd
  \/ ~Locked /\ LogWork({<<"fix bug", None>>}, {"none"})
  \/ Locked /\ FailingCall({"log_work"}, {"create"})
  \/ Return
  \/ \E b \in RepoBranches : CreateBranch(b)
  \/ \E b \in RepoBranches : Checkout(b)
  \/ \E b \in RepoBranches : DeleteBranch(b)

SpecCleanup == InitCleanup /\ [][NextCleanup]_vars

\* A repository right after git init: HEAD names the branch main, which
\* has no commit yet and so is not among repo.branches.
InitUnborn ==
  /\ logs = {}
  /\ seq = 0
  /\ now = 0
  /\ tz \in TzOffsets
  /\ inRepo = TRUE
  /\ repoExc = "GitCommandError"
  /\ active = "main"
  /\ branches = {}
  /\ toml \in ConfigFiles
  /\ cfgFile = "parseable"
  /\ eidexDir = FALSE
  /\ context = FALSE
  /\ schema = {}
  /\ gitignore = NoGitignore
  /\ procs = NoProcs
  /\ call = NoCall
  /\ ret = NoRet
  /\ defaults = DEFAULT_CONFIG

\* The library calls on the store of a repository that gets its first
\* commit at some point.
NextUnborn ==
  \/ LogWork({<<"fix bug", None>>}, {"none"})
  \/ FetchBranchLogs({<<NoBranch, FALSE, 0>>})
  \/ CleanupDeletedBranches
  \/ GitCommit
  \/ Return
  \/ Tick

SpecUnborn == InitUnborn /\ [][NextUnborn]_vars

\* A repository eidex never ran in, and two processes about to call
\* log_work on its active branch.
InitWriters ==
  /\ logs = {}
  /\ seq = 0
  /\ now = 0
  /\ tz \in TzOffsets
  /\ inRepo = TRUE
  /\ repoExc = "GitCommandError"
  /\ active = "main"
  /\ branches = Branches
  /\ toml \in ConfigFiles
  /\ cfgFile = "parseable"
  /\ eidexDir = FALSE
  /\ context = FALSE
  /\ schema = {}
  /\ gitignore = NoGitignore
  /\ procs = [p \in Procs |-> WriterAt("idle")]
  /\ call = NoCall
  /\ ret = NoRet
  /\ defaults = DEFAULT_CONFIG

\* The calls of the two processes, step by step, while the clock advances.
NextWriters ==
  \/ \E p \in Procs :
       \/ WriterBegin(p)
       \/ WriterInsert(p)
       \/ WriterPrune(p)
       \/ WriterCap(p)
  \/ Tick

SpecWriters == InitWriters /\ [][NextWriters]_vars

\* ------------------------------------------------------------------------
\* Properties
\* ------------------------------------------------------------------------
BranchRows(rows, b) == {r \in rows : r.branch = b}
Min(a, b) == IF a < b THEN a ELSE b

\* The instant a row was created, read back from its timestamp text.
Instant(row) == row.timestamp[1] * TicksPerDay + row.timestamp[3]

\* The branch and the limit the last fetch_branch_logs call worked with.
FetchedBranch == IF call.branch = NoBranch THEN active ELSE call.branch
FetchedLimit ==
  IF call.hasLimit THEN CInt(call.limit)
  ELSE get_config_value(ConfigFile, "logging", "default_limit", CInt(50))

\* C1: fetch_branch_logs(branch, limit=N) returns the N most recently
\* appended entries of the branch (all of them when there are fewer), newest
\* first: ids strictly descending, timestamps never ascending, and no entry
\* left out is more recent than one returned.
C1_FetchNewestFirst ==
  (call.op = "fetch_branch_logs" /\ ret.err = "none" /\ call.hasLimit /\ call.limit > 0) =>
    LET rows == BranchRows(logs, FetchedBranch)
        k == Min(call.limit, Cardinality(rows))
    IN \E sel \in [1..k -> rows] :
         /\ \A i \in 1..k, j \in 1..k : i < j => sel[i].id > sel[j].id
         /\ \A i \in 1..k, j \in 1..k :
              i < j => ~TextLess(sel[i].timestamp, sel[j].timestamp)
         /\ \A r \in rows : (\A i \in 1..k : sel[i] # r) => \A i \in 1..k : r.id < sel[i].id
         /\ ret.rows = [i \in 1..k |-> Entry(sel[i])]

\* Two entries of one branch share a timestamp and a limit of 1 returned the
\* later one only.
C1_Witness ==
  /\ call.op = "fetch_branch_logs" /\ ret.err = "none"
  /\ call.hasLimit /\ call.limit = 1
  /\ \E r1 \in logs, r2 \in logs :
       /\ r1.branch = FetchedBranch /\ r2.branch = FetchedBranch
       /\ r1.timestamp = r2.timestamp /\ r1.id < r2.id /\ r1.message # r2.message
       /\ ret.rows = <<Entry(r2)>>

\* C2: right after a successful log_work on branch b, fetch_branch_logs(b, 1)
\* returns exactly the entry just written.
C2_JustWrittenIsFetched ==
  (call.op = "log_work" /\ ret.err = "none") =>
    LET rows == fetch_branch_logs(Ensured, call.branch, TRUE, 1).rows
    IN /\ Len(rows) = 1
       /\ rows[1].message = call.message
       /\ rows[1].branch = call.branch
       /\ rows[1].timestamp = CURRENT_TIMESTAMP(now)
       /\ (call.extra = None => rows[1].extra = None)

\* C3: the entry fetched after log_work(message, extra) carries the payload
\* that was supplied.
C3_PayloadRoundTrip ==
  (call.op = "log_work" /\ ret.err = "none" /\ \E r \in logs : r.id = ret.inserted) =>
    LET rows == fetch_branch_logs(Ensured, call.branch, TRUE, 1).rows
    IN Len(rows) = 1 /\ rows[1].extra = call.extra

\* The configured values the maintenance steps of log_work read.
MaxLogs == get_config_value(ConfigFile, "database", "max_logs_per_branch", CInt(1000))
AutoCleanup == get_config_value(ConfigFile, "database", "auto_cleanup_old_logs", CBool(TRUE))
Threshold == get_config_value(ConfigFile, "database", "cleanup_days_threshold", CInt(90))

\* A step of log_work that returned without error under a positive count cap.
CappedLogWork ==
  /\ call.op = "idle" /\ call'.op = "log_work" /\ ret'.err = "none"
  /\ MaxLogs.t = "int" /\ MaxLogs.i > 0

C5_PruneExactlyOlder ==
  [][(call.op = "idle" /\ call'.op = "prune_old_logs" /\ ret'.err = "none") =>
       LET cutoff == now - call'.days * TicksPerDay
       IN /\ logs' \subseteq logs
          /\ \A r \in logs : Instant(r) < cutoff => r \notin logs'
          /\ \A r \in logs : Instant(r) > cutoff => r \in logs'
          /\ ret'.count = Cardinality(logs \ logs')]_vars

\* C6: cleanup_deleted_branches deletes the entries of the branches that no
\* longer exist, keeps every entry of an existing branch, and returns the
\* number of entries it deleted.
C6_CleanupOnlyDeletedBranches ==
  [][(call.op = "idle" /\ call'.op = "cleanup_deleted_branches" /\ ret'.err = "none") =>
       /\ logs' = {r \in logs : r.branch \in branches}
       /\ ret'.count = Cardinality(logs) - Cardinality(logs')]_vars

\* The cleanup deleted the entries of a deleted branch and an entry of an
\* existing branch is still stored.
C6_Witness ==
  /\ call.op = "cleanup_deleted_branches" /\ ret.err = "none"
  /\ ret.count >= 1
  /\ branches # Branches
  /\ logs # {}
  /\ \A r \in logs : r.branch \in branches

\* C7: inside a repository, fetch_branch_logs with an effective limit of 0 or
\* less, given or configured, returns an empty sequence and raises nothing.
C7_NonPositiveLimitIsEmpty ==
  (call.op = "fetch_branch_logs" /\ inRepo /\ FetchedLimit.t = "int" /\ FetchedLimit.i <= 0) =>
    ret.err = "none" /\ ret.rows = <<>>

\* A fetch without a limit ran under a negative default_limit on a branch
\* that has entries.
C7_Witness ==
  /\ call.op = "fetch_branch_logs" /\ inRepo
  /\ ~call.hasLimit /\ FetchedLimit.t = "int" /\ FetchedLimit.i < 0
  /\ BranchRows(logs, FetchedBranch) # {}
  /\ ret.err = "none" /\ ret.rows = <<>>

\* C8: once log_work has committed its row, it returns without an error.
C8_NoErrorAfterInsert ==
  (call.op = "log_work" /\ ret.inserted # 0) => ret.err = "none"

\* C9: outside a working tree every call fails with ValueError and nothing
\* is written.
C9_ValueErrorOutsideRepo ==
  (~inRepo /\ call.op # "idle") => ret.err = "ValueError" /\ logs = {} /\ seq = 0

\* C10: the command log_work with an --extra text that is not JSON writes
\* nothing and exits with a non-zero code.
C10_BadExtraAborts ==
  (call.op = "cli log_work" /\ call.arg.given /\ ~Parses(call.arg.text)) =>
    ret.exit # 0 /\ ret.inserted = 0

\* The calls that work on the store.
StoreOps == {"log_work", "fetch_branch_logs", "prune_old_logs", "cleanup_deleted_branches"}

\* C12: inside a repository every ensure_db call, the first and a repeated
\* one, raises nothing and leaves the schema with exactly the logs table and
\* the (branch, timestamp) index; it changes no entry, and one more call
\* would leave the schema as this one left it.
C12_EnsureDbIdempotent ==
  [][(call.op = "idle" /\ call'.op = "ensure_db" /\ inRepo) =>
       /\ ret'.err = "none"
       /\ schema' = {LogsTable, BranchIndex}
       /\ logs' = logs /\ seq' = seq
       /\ Ensured'.err = "none"
       /\ Ensured'.tree.schema = schema']_vars

\* ensure_db was called again on a store that holds entries.
C12_Witness ==
  /\ call.op = "ensure_db" /\ ret.err = "none"
  /\ ret.before.schema = {LogsTable, BranchIndex}
  /\ schema = {LogsTable, BranchIndex}
  /\ Cardinality(logs) = 2

\* C17: inside a repository, whichever of log_work, fetch_branch_logs,
\* prune_old_logs and cleanup_deleted_branches is called, on an absent or an
\* existing store, it does not fail for want of the store, and the directory,
\* the table and the index exist when it returns.
C17_StoreEnsuredByEveryCall ==
  [][(call.op = "idle" /\ call'.op \in StoreOps /\ inRepo) =>
       /\ ret'.err # "OperationalError"
       /\ eidexDir'
       /\ schema' = {LogsTable, BranchIndex}]_vars

\* cleanup_deleted_branches was the first call in a working tree without a
\* store, and the store exists now.
C17_Witness ==
  /\ call.op = "cleanup_deleted_branches" /\ ret.err = "none"
  /\ ~ret.before.eidexDir /\ ret.before.schema = {}
  /\ eidexDir /\ LogsTable \in schema

\* The lines of a text: the pieces between its line feeds.
RECURSIVE SplitLines(_, _)
SplitLines(text, line) ==
  IF text = <<>> THEN (IF line = <<>> THEN <<>> ELSE <<line>>)
  ELSE IF Head(text) = LF THEN <<line>> \o SplitLines(Tail(text), <<>>)
  ELSE SplitLines(Tail(text), line \o <<Head(text)>>)

\* The lines of the ignore file (none when there is no file).
Lines(file) == IF file.exists THEN SplitLines(file.content, <<>>) ELSE <<>>

\* How many of the lines are the entry.
Count(lines, entry) == Cardinality({i \in DOMAIN lines : lines[i] = entry})

IsPrefix(a, b) == Len(a) <= Len(b) /\ SubSeq(b, 1, Len(a)) = a
Max(a, b) == IF a > b THEN a ELSE b

\* The [git] settings ensure_db reads.
AutoIgnore == CfgTruthy(get_config_value(ConfigFile, "git", "auto_add_to_gitignore", CBool(TRUE)))
IgnoreEntries == get_config_value(ConfigFile, "git", "gitignore_entries", CList(<<S_eidex_dir>>)).l

\* A step of ensure_db that returned without error with auto-ignore enabled.
RegisteringEnsureDb ==
  /\ call.op = "idle" /\ call'.op = "ensure_db" /\ ret'.err = "none"
  /\ AutoIgnore'

\* C13: an ensure_db call with auto-ignore enabled leaves the lines the
\* ignore file had, unchanged and in their order, before anything it adds,
\* and makes no configured entry a line more than once (unless the file
\* listed it more than once before).
C13_NoDuplicateIgnoreEntries ==
  [][RegisteringEnsureDb =>
       /\ IsPrefix(Lines(gitignore), Lines(gitignore'))
       /\ \A i \in DOMAIN IgnoreEntries' :
            Count(Lines(gitignore'), IgnoreEntries'[i])
              <= Max(1, Count(Lines(gitignore), IgnoreEntries'[i]))]_vars

\* C14: when ensure_db has returned with auto-ignore enabled, the ignore file
\* exists and every configured entry is one of its lines.
C14_EveryEntryIsALine ==
  (call.op = "ensure_db" /\ ret.err = "none" /\ AutoIgnore) =>
    /\ gitignore.exists
    /\ \A i \in DOMAIN IgnoreEntries :
         \E j \in DOMAIN Lines(gitignore) : Lines(gitignore)[j] = IgnoreEntries[i]

\* The file name eidex.toml configures for the store, ".eidex-logs.db" when
\* it configures none.
ConfiguredFilename ==
  IF cfgFile = "parseable" /\ "database" \in DOMAIN toml /\ "filename" \in DOMAIN toml.database
  THEN toml.database.filename.s
  ELSE ".eidex-logs.db"

\* C16: get_db_path returns <repo root>/.eidex/<configured file name> and
\* creates, modifies or deletes no file or directory.
C16_GetDbPathIsPure ==
  [][(call.op = "idle" /\ call'.op = "get_db_path" /\ inRepo) =>
       /\ ret'.err = "none"
       /\ ret'.out = <<RepoRoot, ".eidex", ConfiguredFilename>>
       /\ UNCHANGED files]_vars

\* The value a key of a built-in section has when the parsed file is laid
\* over the defaults.
Overlaid(file, section, key) ==
  IF section \in DOMAIN file /\ key \in DOMAIN file[section]
  THEN file[section][key]
  ELSE DEFAULT_CONFIG[section][key]

FileKeys(file, section) == IF section \in DOMAIN file THEN DOMAIN file[section] ELSE {}

\* C18: for a parseable eidex.toml, load_config returns the built-in
\* sections, each with the keys of its defaults and of the file's section; a
\* key the file gives has the file's value, whole, and any other key its
\* default.
C18_ConfigOverlay ==
  (call.op = "load_config" /\ ret.err = "none" /\ ret.before.cfgFile = "parseable") =>
    /\ DOMAIN ret.out = DOMAIN DEFAULT_CONFIG
    /\ \A section \in DOMAIN DEFAULT_CONFIG :
         /\ DOMAIN ret.out[section]
              = DOMAIN DEFAULT_CONFIG[section] \cup FileKeys(ret.before.toml, section)
         /\ \A key \in DOMAIN ret.out[section] :
              ret.out[section][key] = Overlaid(ret.before.toml, section, key)

\* load_config read a file that sets the store file name and one ignore
\* entry: both are returned, next to the defaults of the keys it leaves out.
C18_Witness ==
  /\ call.op = "load_config" /\ ret.err = "none" /\ ret.before.cfgFile = "parseable"
  /\ ret.out.database.filename = CStr("custom.db")
  /\ ret.out.database.max_logs_per_branch = CInt(1000)
  /\ ret.out.git.gitignore_entries = CList(<<S_eidex_cache>>)
  /\ ret.out.git.auto_add_to_gitignore = CBool(TRUE)
  /\ ret.out.logging = DEFAULT_CONFIG.logging

\* C19: a configuration read that finds eidex.toml absent scaffolds the file
\* and returns the built-in defaults: load_config the whole DEFAULT_CONFIG,
\* get_config_value the default of the key.
C19_AbsentFileGivesDefaults ==
  (call.op \in {"load_config", "get_config_value"} /\ ret.err = "none"
     /\ ret.before.cfgFile = "absent") =>
    /\ cfgFile = "parseable"
    /\ call.op = "load_config" => ret.out = DEFAULT_CONFIG
    /\ (call.op = "get_config_value" /\ call.message \in DOMAIN DEFAULT_CONFIG
          /\ call.branch \in DOMAIN DEFAULT_CONFIG[call.message]) =>
         ret.out = DEFAULT_CONFIG[call.message][call.branch]

\* C20: load_config on an eidex.toml that cannot be parsed raises nothing and
\* returns the built-in defaults.
C20_UnparseableGivesDefaults ==
  (call.op = "load_config" /\ inRepo /\ ret.before.cfgFile = "unparseable") =>
    ret.err = "none" /\ ret.out = DEFAULT_CONFIG

\* load_config ran on an unparseable eidex.toml, which is still there.
C20_Witness ==
  /\ call.op = "load_config" /\ inRepo /\ ret.err = "none"
  /\ ret.before.cfgFile = "unparseable" /\ cfgFile = "unparseable"
  /\ ret.out = DEFAULT_CONFIG

\* The exceptions of the three error classes the command line surfaces: not
\* in a repository, malformed --extra, and a store SQLite cannot access.
SurfacedErrors == {"ValueError", "OperationalError"} \cup RepoExceptions

\* C11: every verb of the command line exits with 0 when its operation
\* succeeds, and answers an error of the three surfaced classes with a
\* formatted "Error: ..." message and a non-zero exit code, never with an
\* unhandled exception.
C11_ErrorsAreFormatted ==
  (call.op \in {"cli " \o verb : verb \in Verbs}) =>
    /\ ret.err = "none" => ret.exit = 0 /\ ret.stderr = ""
    /\ ret.err \in SurfacedErrors => ret.exit # 0 /\ ret.stderr = "Error"

\* Every ensure_db call that runs side by side with another has ended.
AllEnded == procs # NoProcs /\ \A p \in DOMAIN procs : procs[p].pc \in {"done", "failed"}

\* C15: when two interleaved ensure_db calls on a fresh repository have
\* ended, neither has raised, the directory and the schema are there, and
\* with auto-ignore enabled every configured entry is exactly one line of
\* the ignore file.
C15_InterleavedEnsureDb ==
  AllEnded =>
    /\ \A p \in DOMAIN procs : procs[p].pc = "done" /\ procs[p].err = "none"
    /\ eidexDir
    /\ schema = {LogsTable, BranchIndex}
    /\ AutoIgnore =>
         \A i \in DOMAIN IgnoreEntries :
           Count(Lines(gitignore), Flatten(IgnoreEntries[i])) = 1

\* The configuration load_config gave the call that has returned.
MergedBefore == load_config(TomlFile(ret.before.cfgFile, ret.before.toml))

\* C21: get_config_value(section, key, default) returns the value of the
\* merged configuration when it has the section and the key, a built-in
\* default included, and the caller's default only when the section or the
\* key is missing there.
C21_ConfigValueOrDefault ==
  (call.op = "get_config_value" /\ ret.err = "none") =>
    LET section == call.message
        key == call.branch
    IN IF section \in DOMAIN MergedBefore /\ key \in DOMAIN MergedBefore[section]
       THEN ret.out = MergedBefore[section][key]
       ELSE ret.out = CStr("fallback")

\* A key the file leaves out was asked for with another default: the
\* built-in default came back.
C21_Witness ==
  /\ call.op = "get_config_value" /\ ret.err = "none"
  /\ ret.before.cfgFile = "parseable"
  /\ call.message = "logging" /\ call.branch = "default_limit"
  /\ "logging" \notin DOMAIN ret.before.toml
  /\ ret.out = CInt(50)

\* C22: an entry log_work inserts gets an id greater than every id assigned
\* before, stored still or deleted since, and no two stored entries share
\* an id.
C22_IdsNeverReused ==
  [][/\ (call.op = "idle" /\ call'.op = "log_work" /\ ret'.inserted # 0) =>
          /\ ret'.inserted > seq
          /\ \A r \in logs : r.id < ret'.inserted
          /\ seq' = ret'.inserted
     /\ seq' >= seq
     /\ \A r \in logs' : r.id <= seq'
     /\ \A r1, r2 \in logs' : r1.id = r2.id => r1 = r2]_vars

\* With no maintenance configured, the second append found the store empty
\* again (the first entry had been pruned or reconciled away) and its entry
\* has id 2.
C22_Witness ==
  /\ call.op = "log_work" /\ ret.err = "none" /\ ret.inserted = 2
  /\ ~CfgTruthy(AutoCleanup) /\ MaxLogs.t = "int" /\ MaxLogs.i <= 0
  /\ {r.id : r \in logs} = {2}

\* The calls that delete entries.
DeletingOps == {"log_work", "prune_old_logs", "cleanup_deleted_branches"}

\* C23: in every step a stored entry keeps its id, branch, message, extra
\* and timestamp or disappears; entries appear only in log_work, one at a
\* time and with the active branch, and disappear only in log_work (count
\* cap, age pruning), prune_old_logs and cleanup_deleted_branches.
C23_EntriesAreImmutable ==
  [][/\ \A r \in logs', q \in logs : r.id = q.id => r = q
     /\ logs' \ logs # {} =>
          /\ call'.op = "log_work"
          /\ \A r \in logs' \ logs :
               /\ r.id = ret'.inserted /\ r.id > seq
               /\ r.branch = active /\ r.message = call'.message
               /\ r.extra = ExtraJson(call'.extra)
               /\ r.timestamp = CURRENT_TIMESTAMP(now)
     /\ logs \ logs' # {} => call'.op \in DeletingOps]_vars

\* A second entry was appended after a checkout and a tick, and the first
\* entry is still stored with the branch and the time it was created with.
C23_Witness ==
  /\ call.op = "log_work" /\ ret.err = "none" /\ ret.inserted = 2
  /\ \E r \in logs : r.id = 1 /\ r.branch # active /\ Instant(r) < now
  /\ \E r \in logs : r.id = 2 /\ r.branch = active /\ Instant(r) = now

\* C24: when log_work, fetch_branch_logs, prune_old_logs,
\* cleanup_deleted_branches or ensure_db has returned or raised, also after
\* a statement failed between connect and close, no connection the call
\* opened is still open.
C24_ConnectionsReleased ==
  (call.op \in StoreOps \cup {"ensure_db"}) => ret.open = 0

\* C25: fetch_branch_logs(branch, limit) with limit > 0 returns min(limit,
\* number of stored entries of the branch) entries, each a stored entry of
\* that branch; none when the branch has no entry.
C25_FetchOnlyRequestedBranch ==
  (call.op = "fetch_branch_logs" /\ ret.err = "none" /\ call.hasLimit /\ call.limit > 0) =>
    LET stored == BranchRows(logs, FetchedBranch)
    IN /\ Len(ret.rows) = Min(call.limit, Cardinality(stored))
       /\ \A i \in DOMAIN ret.rows :
            /\ ret.rows[i].branch = FetchedBranch
            /\ \E r \in stored : ret.rows[i] = Entry(r)
       /\ stored = {} => ret.rows = <<>>

\* Two branches hold one entry each and a fetch of one of them with limit 2
\* returned its single entry.
C25_Witness ==
  /\ call.op = "fetch_branch_logs" /\ ret.err = "none" /\ call.hasLimit /\ call.limit = 2
  /\ Cardinality(logs) = 2
  /\ Cardinality(BranchRows(logs, FetchedBranch)) = 1
  /\ Len(ret.rows) = 1 /\ ret.rows[1].branch = FetchedBranch

\* The default_limit eidex.toml configures, 50 when it configures none.
ConfiguredLimit ==
  IF cfgFile = "parseable" /\ "logging" \in DOMAIN toml /\ "default_limit" \in DOMAIN toml.logging
  THEN toml.logging.default_limit
  ELSE CInt(50)

\* C26: fetch_branch_logs() without branch and limit gives what
\* fetch_branch_logs(active branch, logging.default_limit) gives, with 50 for
\* a default_limit that is not configured.
C26_FetchDefaults ==
  (call.op = "fetch_branch_logs" /\ call.branch = NoBranch /\ ~call.hasLimit
     /\ ConfiguredLimit.t = "int") =>
    LET explicit == fetch_branch_logs(Ensured, active, TRUE, ConfiguredLimit.i)
    IN ret.err = explicit.err /\ ret.rows = explicit.rows

\* A fetch without arguments under the built-in limit returned the entry of
\* the active branch and left out the entry of the other branch.
C26_Witness ==
  /\ call.op = "fetch_branch_logs" /\ call.branch = NoBranch /\ ~call.hasLimit
  /\ ret.err = "none" /\ ConfiguredLimit = CInt(50)
  /\ Cardinality(logs) = 2
  /\ Len(ret.rows) = 1 /\ ret.rows[1].branch = active

\* C27: prune_old_logs(days) with days <= 0 deletes every stored entry that
\* was created at or before the instant of the call.
C27_PruneZeroDeletesAll ==
  [][(call.op = "idle" /\ call'.op = "prune_old_logs" /\ ret'.err = "none"
        /\ call'.days <= 0) =>
       \A r \in logs : Instant(r) <= now => r \notin logs']_vars

C29_NoMaintenanceNoRemoval ==
  [][(/\ call.op = "idle" /\ call'.op = "log_work" /\ ret'.err = "none"
      /\ ~CfgTruthy(AutoCleanup) /\ MaxLogs.t = "int" /\ MaxLogs.i <= 0) =>
       /\ logs \subseteq logs'
       /\ Cardinality(logs') = Cardinality(logs) + 1
       /\ \A r \in logs' \ logs : r.id = ret'.inserted]_vars

\* With cleanup off and a cap of 0 the second entry was written on the branch
\* of the first, a tick later, and both are stored.
C29_Witness ==
  /\ call.op = "log_work" /\ ret.err = "none" /\ ret.inserted = 2
  /\ ~CfgTruthy(AutoCleanup) /\ MaxLogs.t = "int" /\ MaxLogs.i <= 0
  /\ Cardinality(BranchRows(logs, call.branch)) = 2
  /\ \E r \in logs : r.id = 1 /\ Instant(r) < now

\* C30: inside a repository create_default_config leaves eidex.toml with the
\* default template whatever it held, returns <repo root>/eidex.toml every
\* time, touches no other file, and a second call would leave the files as
\* the first left them.
C30_ConfigIsReset ==
  (call.op = "create_default_config" /\ inRepo) =>
    /\ ret.err = "none"
    /\ ret.out = <<RepoRoot, "eidex.toml">>
    /\ cfgFile = "parseable" /\ toml = ScaffoldToml
    /\ <<eidexDir, context, schema, gitignore>>
         = <<ret.before.eidexDir, ret.before.context, ret.before.schema, ret.before.gitignore>>
    /\ create_default_config(CurrentTree) = CurrentTree

\* A file that set another store file name was reset to the template.
C30_Witness ==
  /\ call.op = "create_default_config" /\ inRepo /\ ret.err = "none"
  /\ ret.before.cfgFile = "parseable"
  /\ "database" \in DOMAIN ret.before.toml
  /\ "filename" \in DOMAIN ret.before.toml.database
  /\ ret.before.toml.database.filename = CStr("custom.db")
  /\ toml = ScaffoldToml

\* C31: a fetch_branch_logs call, whatever its branch and limit and whether
\* it returns or raises, leaves the stored entries and the id sequence as
\* they were.
C31_FetchChangesNothing ==
  [][(call.op = "idle" /\ call'.op = "fetch_branch_logs") =>
       logs' = logs /\ seq' = seq]_vars

\* A fetch returned an entry, and the store still holds two.
C31_Witness ==
  /\ call.op = "fetch_branch_logs" /\ ret.err = "none"
  /\ Len(ret.rows) >= 1
  /\ Cardinality(logs) = 2

\* C32: when the age pruning of a log_work call fails and log_work returns
\* under a positive cap, the written branch holds at most
\* max_logs_per_branch entries, the new one among them.
C32_CapRunsAfterFailedPrune ==
  [][(CappedLogWork /\ ret'.fault = "prune") =>
       /\ Cardinality(BranchRows(logs', call'.branch)) <= MaxLogs.i
       /\ \E r \in BranchRows(logs', call'.branch) : r.id = ret'.inserted]_vars

\* The pruning of the second append failed under a cap of 1, and the written
\* branch holds the new entry alone.
C32_Witness ==
  /\ call.op = "log_work" /\ ret.err = "none" /\ ret.fault = "prune"
  /\ MaxLogs.t = "int" /\ MaxLogs.i = 1
  /\ ret.inserted = 2
  /\ {r.id : r \in BranchRows(logs, call.branch)} = {2}

\* C33: when cleanup_deleted_branches raises after its DELETE statements
\* removed the entries of some absent branch, none of the deletions is
\* committed: the failing step leaves the stored entries as they are, and
\* every entry the call deleted is still stored, as is every other entry
\* that was stored when its loop began.
C33_CleanupAllOrNothing ==
  [][(Cleaning("loop") /\ procs' # NoProcs /\ procs'[1].pc = "raised") =>
       /\ logs' = logs
       /\ procs[1].deleted \subseteq logs']_vars

\* The call raised after it had deleted the entries of one absent branch,
\* with those of another absent branch still to delete, and all of them are
\* stored.
C33_Witness ==
  /\ Cleaning("raised")
  /\ procs[1].deleted # {}
  /\ \E b \in procs[1].logged_branches :
       /\ b \notin procs[1].existing_branches
       /\ \E r \in logs : r.branch = b /\ r \notin procs[1].deleted
  /\ procs[1].deleted \subseteq logs

\* C34: every DELETE of cleanup_deleted_branches removes entries of
\* branches that are absent from the repository at the moment it executes,
\* also when a branch is created and written to by log_work after the
\* operation read the existing branches.
C34_DeletesOnlyAbsentBranches ==
  [][(Cleaning("loop") /\ procs' # NoProcs) =>
       \A r \in procs'[1].deleted \ procs[1].deleted : r.branch \notin branches]_vars

\* Every process has returned from its log_work call.
AllReturned == \A p \in DOMAIN procs : procs[p].pc = "done"

C36_ActiveBranchKept ==
  [][(call.op = "idle" /\ call'.op = "cleanup_deleted_branches") =>
       BranchRows(logs, active) \subseteq logs']_vars

\* C37: whatever a caller did to the configurations it was given,
\* load_config and get_config_value return for a file what they return
\* for it in a process whose built-in defaults were never touched.
C37_NoSharedState ==
  [][(call.op = "idle" /\ ret'.err = "none") =>
       /\ call'.op = "load_config" => ret'.out = load_config(ConfigFile)
       /\ call'.op = "get_config_value" =>
            ret'.out = get_config_value(ConfigFile, call'.message, call'.branch,
                                        CStr("fallback"))]_vars
====
